---- MODULE Spec2Model ----
(***************************************************************************)
(* A model of the Dark Matter Detection scanner: the three AST detectors   *)
(* (phantom_loops.py, zombie_orbits.py, evidence_voids.py), their score    *)
(* functions, and DarkMatterScanner (dark_matter_scanner.py) with its text *)
(* and JSON reports.                                                       *)
(*                                                                         *)
(* Representation choices:                                                 *)
(*  - A source text is the sequence of its '\n'-separated lines, each a    *)
(*    record [indent, text]; a line's number is its index.  A Python       *)
(*    string built by "\n".join(...) is the sequence of the joined lines.  *)
(*  - An f-string is the tuple of its pieces, every interpolated value     *)
(*    converted with ToString.                                             *)
(*  - Scores are sums of the weights 3.0, 2.0 and 1.0 and the cap 10.0:    *)
(*    they are whole numbers and are kept as integers; "{:.1f}" renders    *)
(*    the integer followed by ".0".                                        *)
(*  - A call that can raise returns [exc, value]; exc = "" is a normal     *)
(*    return.                                                              *)
(***************************************************************************)
EXTENDS Integers, Sequences, FiniteSets, TLC

\* ------------------------------------------------------------------ bounds
\* Most blocks concatenated into one scanned source text.
MaxBlocks == 2
\* Most findings in a list handed to a score function (all severities).
MaxFindings == 4
\* Longest list of HIGH findings handed to a score function.
MaxHighRun == 20
\* Most scan_all calls on the scanners of one behaviour.
MaxScans == 2
\* Deepest nesting of function definitions in a traversed text.
MaxDepth == 2
\* Most statements in a generated block body.
MaxBody == 2

\* --------------------------------------------------------------- variables
\* A DarkMatterScanner: its fields, the report its last call returned (none
\* when that call was not generate_report) and the exception that escaped
\* its last call ("" for none).
VARIABLES self_source_code, self_filepath, self_results, report, error
\* Bookkeeping: the scan_all calls made, and every result and report a
\* completed scan has produced so far.
VARIABLES scan_count, history
\* A score function under test: which one, its argument, the value it
\* returned for it (-1: not called yet) and for the list one finding shorter.
VARIABLES score_fn, score_input, score_output, score_before
\* The detect_* calls in progress when the detectors are run side by side:
\* for each detector where its call stands, its detector object, and the
\* list it returned.
VARIABLES running

scannerVars ==
    <<self_source_code, self_filepath, self_results, report, error, scan_count, history>>
scoreVars == <<score_fn, score_input, score_output, score_before>>
parVars == <<running>>
vars == <<scannerVars, scoreVars, parVars>>

Min(a, b) == IF a < b THEN a ELSE b
Max(a, b) == IF a > b THEN a ELSE b

\* A Python dict is a function on its keys; {} is the empty function.
EmptyDict == <<>>

\* d[k] = v
DictSet(d, k, v) == [x \in DOMAIN d \cup {k} |-> IF x = k THEN v ELSE d[x]]

\* d.get(k, default)
DictGet(d, k, default) == IF k \in DOMAIN d THEN d[k] ELSE default

\* ------------------------------------------------------------ syntax trees
\* One ast node.  name: a function's name, a Name's id, a call's callee, an
\* except handler's exception type ("" for none), a Constant's literal.
\* exprs: the expression children, body/handlers: the statement children,
\* in the order ast.NodeVisitor.generic_visit walks them.
Node(type, lineno, name, ctx, exprs, body, handlers) ==
    [type |-> type, lineno |-> lineno, name |-> name, ctx |-> ctx,
     exprs |-> exprs, body |-> body, handlers |-> handlers]

Leaf(type, lineno, name, ctx) == Node(type, lineno, name, ctx, <<>>, <<>>, <<>>)

NameNode(id, ln) == Leaf("Name", ln, id, "Load")

ConstantNode(v, ln) == Leaf("Constant", ln, v, "")

\* A call: its first expression child is call.func, the rest its arguments.
CallNode(fn, args, ln) ==
    Node("Call", ln, "", "", <<NameNode(fn, ln)>> \o args, <<>>, <<>>)

ExprStmt(value, ln) == Node("Expr", ln, "", "", <<value>>, <<>>, <<>>)

AssignStmt(target, value, ln) ==
    Node("Assign", ln, "", "", <<target, value>>, <<>>, <<>>)

\* The line texts that open a block.
BlockOpeners ==
    {"def f():", "def g():", "async def h():", "while True:", "while x:",
     "while x < 99:", "for i in xs:", "try:", "except:", "except E:"}

ExceptClauses == {"except:", "except E:"}

\* The line texts that are a whole simple statement.
SimpleStatements ==
    {"break", "continue", "pass", "raise", "return", "return v",
     "compute()", "print(e)", "send(m)", "open(p)", "a + b", "compute() + b",
     "'doc'", "x = 42", "x = 1", "self.x = v", "x = open(p)"}

\* The statement node a line stands for, given its parsed block.
Statement(text, ln, body, handlers) ==
    CASE text = "def f():" -> Node("FunctionDef", ln, "f", "", <<>>, body, <<>>)
      [] text = "def g():" -> Node("FunctionDef", ln, "g", "", <<>>, body, <<>>)
      [] text = "async def h():" ->
            Node("AsyncFunctionDef", ln, "h", "", <<>>, body, <<>>)
      [] text = "while True:" ->
            Node("While", ln, "", "", <<ConstantNode("True", ln)>>, body, <<>>)
      [] text = "while x:" ->
            Node("While", ln, "", "", <<NameNode("x", ln)>>, body, <<>>)
      [] text = "while x < 99:" ->
            Node("While", ln, "", "",
                 <<Node("Compare", ln, "", "",
                        <<NameNode("x", ln), ConstantNode("99", ln)>>,
                        <<>>, <<>>)>>,
                 body, <<>>)
      [] text = "for i in xs:" ->
            Node("For", ln, "", "",
                 <<Leaf("Name", ln, "i", "Store"), NameNode("xs", ln)>>,
                 body, <<>>)
      [] text = "try:" -> Node("Try", ln, "", "", <<>>, body, handlers)
      [] text = "except:" -> Node("ExceptHandler", ln, "", "", <<>>, body, <<>>)
      [] text = "except E:" ->
            Node("ExceptHandler", ln, "E", "", <<NameNode("E", ln)>>, body, <<>>)
      [] text = "break" -> Leaf("Break", ln, "", "")
      [] text = "continue" -> Leaf("Continue", ln, "", "")
      [] text = "pass" -> Leaf("Pass", ln, "", "")
      [] text = "raise" -> Leaf("Raise", ln, "", "")
      [] text = "return" -> Leaf("Return", ln, "", "")
      [] text = "return v" ->
            Node("Return", ln, "", "", <<NameNode("v", ln)>>, <<>>, <<>>)
      [] text = "compute()" -> ExprStmt(CallNode("compute", <<>>, ln), ln)
      [] text = "print(e)" ->
            ExprStmt(CallNode("print", <<NameNode("e", ln)>>, ln), ln)
      [] text = "send(m)" ->
            ExprStmt(CallNode("send", <<NameNode("m", ln)>>, ln), ln)
      [] text = "open(p)" ->
            ExprStmt(CallNode("open", <<NameNode("p", ln)>>, ln), ln)
      [] text = "a + b" ->
            ExprStmt(Node("BinOp", ln, "", "",
                          <<NameNode("a", ln), NameNode("b", ln)>>, <<>>, <<>>),
                     ln)
      [] text = "compute() + b" ->
            ExprStmt(Node("BinOp", ln, "", "",
                          <<CallNode("compute", <<>>, ln), NameNode("b", ln)>>,
                          <<>>, <<>>),
                     ln)
      [] text = "'doc'" -> ExprStmt(ConstantNode("'doc'", ln), ln)
      [] text = "x = 42" ->
            AssignStmt(Leaf("Name", ln, "x", "Store"), ConstantNode("42", ln), ln)
      [] text = "x = 1" ->
            AssignStmt(Leaf("Name", ln, "x", "Store"), ConstantNode("1", ln), ln)
      [] text = "self.x = v" ->
            AssignStmt(Node("Attribute", ln, "x", "Store",
                            <<NameNode("self", ln)>>, <<>>, <<>>),
                       NameNode("v", ln), ln)
      [] text = "x = open(p)" ->
            AssignStmt(Leaf("Name", ln, "x", "Store"),
                       CallNode("open", <<NameNode("p", ln)>>, ln), ln)

\* ------------------------------------------------------------------ parser
\* ast.parse on a text given as its lines: Python's block structure by
\* indentation.  A parse step returns [ok, nodes, next]; ok = FALSE is a
\* SyntaxError (IndentationError is a SyntaxError).
ParseFail == [ok |-> FALSE, nodes |-> <<>>, next |-> 0]

RECURSIVE SkipBlank(_, _)
SkipBlank(lines, i) ==
    IF i <= Len(lines) /\ lines[i].text = "" THEN SkipBlank(lines, i + 1) ELSE i

RECURSIVE ParseBlock(_, _, _)
RECURSIVE ParseSuite(_, _, _)
RECURSIVE ParseStmt(_, _, _)
RECURSIVE ParseHandlers(_, _, _)

\* Two parse results in sequence: the nodes of both, or the failure.
ParseJoin(s, r) ==
    IF ~s.ok \/ ~r.ok THEN ParseFail
    ELSE [ok |-> TRUE, nodes |-> s.nodes \o r.nodes, next |-> r.next]

\* The statement parsed as s, then the rest of its block.
ParseRest(lines, ind, s) ==
    IF ~s.ok THEN ParseFail ELSE ParseJoin(s, ParseBlock(lines, s.next, ind))

\* The statements at indentation ind from line i on (i not blank), up to
\* the first line indented less; a line indented more is an unexpected
\* indent.
ParseBlockAt(lines, i, ind) ==
    IF i > Len(lines) \/ lines[i].indent < ind
    THEN [ok |-> TRUE, nodes |-> <<>>, next |-> i]
    ELSE IF lines[i].indent > ind THEN ParseFail
    ELSE ParseRest(lines, ind, ParseStmt(lines, i, ind))

ParseBlock(lines, i0, ind) == ParseBlockAt(lines, SkipBlank(lines, i0), ind)

\* The block a compound statement needs: at least one line (i, not blank),
\* indented more than its opener.
ParseSuiteAt(lines, i, parentInd) ==
    IF i > Len(lines) \/ lines[i].indent <= parentInd THEN ParseFail
    ELSE ParseBlock(lines, i, lines[i].indent)

ParseSuite(lines, i0, parentInd) ==
    ParseSuiteAt(lines, SkipBlank(lines, i0), parentInd)

\* The compound statement of line i with its parsed block b (and handlers).
ParseCompound(lines, i, b, h) ==
    IF ~b.ok \/ ~h.ok THEN ParseFail
    ELSE [ok |-> TRUE,
          nodes |-> <<Statement(lines[i].text, i, b.nodes, h.nodes)>>,
          next |-> h.next]

\* The compound statement of line i that is its opener and its block b.
ParseOpener(lines, i, b) ==
    ParseCompound(lines, i, b, [b EXCEPT !.nodes = <<>>])

\* An except clause at line i with its block b, then the clauses after it.
ParseHandlerRest(lines, i, ind, b) ==
    IF ~b.ok THEN ParseFail
    ELSE ParseJoin(ParseOpener(lines, i, b), ParseHandlers(lines, b.next, ind))

ParseHandlersAt(lines, i, ind) ==
    IF i <= Len(lines) /\ lines[i].indent = ind /\ lines[i].text \in ExceptClauses
    THEN ParseHandlerRest(lines, i, ind, ParseSuite(lines, i + 1, ind))
    ELSE [ok |-> TRUE, nodes |-> <<>>, next |-> i]

\* The except clauses that follow a try block, at the try's indentation.
ParseHandlers(lines, i0, ind) ==
    ParseHandlersAt(lines, SkipBlank(lines, i0), ind)

\* A try statement at line i with its block b: one handler or more follow.
ParseTryHandlers(lines, i, b, h) ==
    IF ~h.ok \/ h.nodes = <<>> THEN ParseFail ELSE ParseCompound(lines, i, b, h)

ParseTry(lines, i, ind, b) ==
    IF ~b.ok THEN ParseFail
    ELSE ParseTryHandlers(lines, i, b, ParseHandlers(lines, b.next, ind))

\* One statement starting at line i.
ParseStmt(lines, i, ind) ==
    IF lines[i].text \in ExceptClauses THEN ParseFail
    ELSE IF lines[i].text = "try:"
    THEN ParseTry(lines, i, ind, ParseSuite(lines, i + 1, ind))
    ELSE IF lines[i].text \in BlockOpeners
    THEN ParseOpener(lines, i, ParseSuite(lines, i + 1, ind))
    ELSE IF lines[i].text \in SimpleStatements
    THEN [ok |-> TRUE, nodes |-> <<Statement(lines[i].text, i, <<>>, <<>>)>>,
          next |-> i + 1]
    ELSE ParseFail

NoTree == Node("", 0, "", "", <<>>, <<>>, <<>>)

\* ast.parse(source_code): the Module node, or SyntaxError raised.
ast_parse(source_code) ==
    LET r == ParseBlock(source_code, 1, 0) IN
    IF r.ok
    THEN [exc |-> "", value |-> Node("Module", 0, "", "", <<>>, r.nodes, <<>>)]
    ELSE [exc |-> "SyntaxError", value |-> NoTree]

\* source_code.split('\n'): the text is kept as its '\n'-separated pieces.
split_lines(source_code) == source_code

\* ---------------------------------------------------------------- visitors
\* The children generic_visit walks, in field order (test/target/value
\* expressions, then the body, then a try's handlers).  Nodes that carry
\* nothing a detector reads (arguments, operators, Load/Store) are left out.
Children(node) == node.exprs \o node.body \o node.handlers

\* ast.walk(node): the node and all its descendants.
RECURSIVE Walk(_)
Walk(node) ==
    {node} \cup UNION {Walk(Children(node)[i]) : i \in 1..Len(Children(node))}

\* A traversal's call stack, kept explicitly: a frame is a pending
\* visit(node), or the statement that follows generic_visit in
\* visit_FunctionDef (self.current_context = old_context).
VisitFrame(node) == [op |-> "visit", node |-> node, ctx |-> <<>>]

\* Mutant: the context is reset, not restored.
RestoreFrame_reset(old_context) == [op |-> "restore", node |-> <<>>, ctx |-> <<"module">>]

RestoreFrame(old_context) == [op |-> "restore", node |-> NoTree, ctx |-> old_context]

\* generic_visit(node): visit each child in order, before what is pending.
GenericVisit(node, rest) ==
    [i \in 1..Len(Children(node)) |-> VisitFrame(Children(node)[i])] \o rest

ModuleContext == <<"module">>

\* f"function:{node.name}"
FunctionContext(name) == <<"function:", name>>

\* ------------------------------------------------------------ phantom loops
Phantom_get_code_snippet(source_lines, line) ==
    LET start == Max(0, line - 2)
        end == Min(Len(source_lines), line + 2)
    IN SubSeq(source_lines, start + 1, end)

Phantom_is_infinite_condition(test) ==
    test.type = "Constant" /\ test.name = "True"

\* Mutant: an exit anywhere in the body counts, the last statement deciding.
Phantom_check_immediate_exit_last(body) ==
    IF body = <<>>
    THEN [found |-> FALSE, phantom_type |-> "", exit_mechanism |-> ""]
    ELSE LET last_stmt == body[Len(body)] IN
         CASE last_stmt.type = "Break" ->
                [found |-> TRUE, phantom_type |-> "while_true_break",
                 exit_mechanism |-> "breaks"]
           [] last_stmt.type = "Return" ->
                [found |-> TRUE, phantom_type |-> "while_true_return",
                 exit_mechanism |-> "returns"]
           [] last_stmt.type = "Raise" ->
                [found |-> TRUE, phantom_type |-> "while_true_raise",
                 exit_mechanism |-> "raises"]
           [] OTHER ->
                [found |-> FALSE, phantom_type |-> "", exit_mechanism |-> ""]

\* None is [found |-> FALSE].
Phantom_check_immediate_exit(body) ==
    IF body = <<>>
    THEN [found |-> FALSE, phantom_type |-> "", exit_mechanism |-> ""]
    ELSE LET first_stmt == body[1] IN
         CASE first_stmt.type = "Break" ->
                [found |-> TRUE, phantom_type |-> "while_true_break",
                 exit_mechanism |-> "breaks"]
           [] first_stmt.type = "Return" ->
                [found |-> TRUE, phantom_type |-> "while_true_return",
                 exit_mechanism |-> "returns"]
           [] first_stmt.type = "Raise" ->
                [found |-> TRUE, phantom_type |-> "while_true_raise",
                 exit_mechanism |-> "raises"]
           [] OTHER ->
                [found |-> FALSE, phantom_type |-> "", exit_mechanism |-> ""]

Phantom_calculate_severity(phantom_type) ==
    IF phantom_type = "while_true_break" THEN "HIGH" ELSE "MEDIUM"

\* Mutant: current_context is an attribute of the class, shared with the
\* zombie detector that is visiting.
PhantomLoopDetector_shared(source_lines) ==
    [source_lines |-> source_lines, phantoms |-> <<>>,
     current_context |-> IF running["zombie_orbits"].pc = "visiting"
                         THEN running["zombie_orbits"].self.current_context
                         ELSE ModuleContext,
     stack |-> <<>>]

PhantomLoopDetector(source_lines) ==
    [source_lines |-> source_lines, phantoms |-> <<>>,
     current_context |-> ModuleContext, stack |-> <<>>]

Phantom_visit_FunctionDef(self, node, rest) ==
    [self EXCEPT !.current_context = FunctionContext(node.name),
                 !.stack = GenericVisit(node, <<RestoreFrame(self.current_context)>> \o rest)]

\* Mutant: the handler does not go on into the loop's children.
Phantom_visit_While_leaf(self, node, rest) ==
    LET exit_info == Phantom_check_immediate_exit(node.body)
        found == Phantom_is_infinite_condition(node.exprs[1]) /\ exit_info.found
        phantom == [line |-> node.lineno,
                    phantom_type |-> exit_info.phantom_type,
                    code_snippet |-> Phantom_get_code_snippet(self.source_lines, node.lineno),
                    severity |-> Phantom_calculate_severity(exit_info.phantom_type),
                    description |-> <<"Loop claims infinity but ",
                                      exit_info.exit_mechanism, " immediately">>,
                    exit_mechanism |-> exit_info.exit_mechanism,
                    context |-> self.current_context]
    IN [self EXCEPT !.phantoms = IF found THEN Append(@, phantom) ELSE @,
                    !.stack = rest]

Phantom_visit_While(self, node, rest) ==
    LET exit_info == Phantom_check_immediate_exit(node.body)
        found == Phantom_is_infinite_condition(node.exprs[1]) /\ exit_info.found
        phantom == [line |-> node.lineno,
                    phantom_type |-> exit_info.phantom_type,
                    code_snippet |-> Phantom_get_code_snippet(self.source_lines, node.lineno),
                    severity |-> Phantom_calculate_severity(exit_info.phantom_type),
                    description |-> <<"Loop claims infinity but ",
                                      exit_info.exit_mechanism, " immediately">>,
                    exit_mechanism |-> exit_info.exit_mechanism,
                    context |-> self.current_context]
    IN [self EXCEPT !.phantoms = IF found THEN Append(@, phantom) ELSE @,
                    !.stack = GenericVisit(node, rest)]

\* One call of NodeVisitor.visit (or the context restore that is pending).
Phantom_visit(self) ==
    LET frame == Head(self.stack)
        rest == Tail(self.stack)
    IN IF frame.op = "restore"
       THEN [self EXCEPT !.current_context = frame.ctx, !.stack = rest]
       ELSE CASE frame.node.type = "FunctionDef" ->
                   Phantom_visit_FunctionDef(self, frame.node, rest)
              [] frame.node.type = "While" ->
                   Phantom_visit_While(self, frame.node, rest)
              [] OTHER -> [self EXCEPT !.stack = GenericVisit(frame.node, rest)]

RECURSIVE Phantom_run(_)
Phantom_run(self) ==
    IF self.stack = <<>> THEN self ELSE Phantom_run(Phantom_visit(self))

\* detect_phantom_loops once ast.parse has returned or raised: the visit of the tree
\* by a new detector, [] on a SyntaxError.
Phantom_detect(source_code, tree) ==
    IF tree.exc = "SyntaxError"
    THEN [exc |-> "", value |-> <<>>]
    ELSE [exc |-> "",
          value |-> Phantom_run([PhantomLoopDetector(split_lines(source_code)) EXCEPT
                       !.stack = <<VisitFrame(tree.value)>>]).phantoms]

detect_phantom_loops(source_code) == Phantom_detect(source_code, ast_parse(source_code))

\* ------------------------------------------------------------ zombie orbits
Zombie_get_code_snippet(source_lines, line) ==
    LET start == Max(0, line - 2)
        end == Min(Len(source_lines), line + 2)
    IN SubSeq(source_lines, start + 1, end)

\* _get_call_name: the callee's name; None is "".
Zombie_get_call_name(call) ==
    LET func == call.exprs[1] IN
    IF func.type \in {"Name", "Attribute"} THEN func.name ELSE ""

\* str.lower on the identifiers of the modelled texts.
str_lower(name) ==
    CASE name = "E" -> "e"
      [] OTHER -> name

\* Mutant: only the output and mutation verbs exempt a call.
Zombie_is_side_effect_function_verbs(name) ==
    str_lower(name) \in {"print", "log", "write", "append", "update", "delete"}

Zombie_is_side_effect_function(name) ==
    str_lower(name) \in {"print", "log", "write", "send", "publish",
                         "append", "update", "delete", "remove", "save",
                         "close", "flush", "commit", "rollback"}

\* Mutant: only a body of `pass` statements is empty.
Zombie_is_empty_loop_pass(body) ==
    \A i \in 1..Len(body) : body[i].type = "Pass"

Zombie_is_empty_loop(body) ==
    \A i \in 1..Len(body) : body[i].type \in {"Pass", "Continue"}

\* Mutant: any return statement counts.
Zombie_has_meaningful_return_any(func_node) ==
    \E node \in Walk(func_node) : node.type = "Return"

Zombie_has_meaningful_return(func_node) ==
    \E node \in Walk(func_node) : node.type = "Return" /\ node.exprs # <<>>

Zombie_has_side_effects(func_node) ==
    \E node \in Walk(func_node) :
        \/ /\ node.type = "Call"
           /\ Zombie_get_call_name(node) \in
                {"print", "log", "write", "append", "update", "delete"}
        \/ node.type = "Attribute" /\ node.ctx = "Store"

ZombieOrbit(line, zombie_type, code_snippet, severity, description, context) ==
    [line |-> line, zombie_type |-> zombie_type, code_snippet |-> code_snippet,
     severity |-> severity, description |-> description, context |-> context]

ZombieOrbitDetector(source_lines) ==
    [source_lines |-> source_lines, zombies |-> <<>>,
     current_context |-> ModuleContext, stack |-> <<>>]

Zombie_visit_FunctionDef(self, node, rest) ==
    LET context == FunctionContext(node.name)
        has_return == Zombie_has_meaningful_return(node)
        has_side_effects == Zombie_has_side_effects(node)
        zombie == ZombieOrbit(node.lineno, "no_return_function",
                     Zombie_get_code_snippet(self.source_lines, node.lineno),
                     "MEDIUM",
                     <<"Function '", node.name,
                       "' runs but produces no output or side effects">>,
                     context)
    IN [self EXCEPT
          !.current_context = context,
          !.zombies = IF ~has_return /\ ~has_side_effects
                      THEN Append(@, zombie) ELSE @,
          !.stack = GenericVisit(node, <<RestoreFrame(self.current_context)>> \o rest)]

\* Mutant: a discarded call is an unused computation as well.
Zombie_visit_Expr_both(self, node, rest) ==
    LET value == node.exprs[1]
        func_name == IF value.type = "Call" THEN Zombie_get_call_name(value) ELSE ""
        discarded == /\ value.type = "Call"
                     /\ func_name # ""
                     /\ ~Zombie_is_side_effect_function(func_name)
        call == ZombieOrbit(node.lineno, "discarded_call",
                   Zombie_get_code_snippet(self.source_lines, node.lineno),
                   "HIGH",
                   <<"Function call '", func_name, "()' result discarded">>,
                   self.current_context)
        computation == ZombieOrbit(node.lineno, "unused_computation",
                   Zombie_get_code_snippet(self.source_lines, node.lineno),
                   "MEDIUM",
                   <<"Computation result discarded (not assigned or returned)">>,
                   self.current_context)
    IN [self EXCEPT
          !.zombies = (IF discarded THEN Append(@, call) ELSE @)
                      \o (IF value.type \in {"BinOp", "Call"} THEN <<computation>> ELSE <<>>),
          !.stack = GenericVisit(node, rest)]

Zombie_visit_Expr(self, node, rest) ==
    LET value == node.exprs[1]
        func_name == IF value.type = "Call" THEN Zombie_get_call_name(value) ELSE ""
        discarded == /\ value.type = "Call"
                     /\ func_name # ""
                     /\ ~Zombie_is_side_effect_function(func_name)
        call == ZombieOrbit(node.lineno, "discarded_call",
                   Zombie_get_code_snippet(self.source_lines, node.lineno),
                   "HIGH",
                   <<"Function call '", func_name, "()' result discarded">>,
                   self.current_context)
        computation == ZombieOrbit(node.lineno, "unused_computation",
                   Zombie_get_code_snippet(self.source_lines, node.lineno),
                   "MEDIUM",
                   <<"Computation result discarded (not assigned or returned)">>,
                   self.current_context)
    IN [self EXCEPT
          !.zombies = (IF discarded THEN Append(@, call) ELSE @)
                      \o (IF value.type = "BinOp" THEN <<computation>> ELSE <<>>),
          !.stack = GenericVisit(node, rest)]

\* visit_For and visit_While: the same body for both loop kinds.
Zombie_visit_Loop(self, node, rest) ==
    LET zombie == ZombieOrbit(node.lineno, "empty_loop",
                     Zombie_get_code_snippet(self.source_lines, node.lineno),
                     "HIGH",
                     <<"Loop executes but body is empty or no-op">>,
                     self.current_context)
    IN [self EXCEPT
          !.zombies = IF Zombie_is_empty_loop(node.body) THEN Append(@, zombie) ELSE @,
          !.stack = GenericVisit(node, rest)]

Zombie_visit(self) ==
    LET frame == Head(self.stack)
        rest == Tail(self.stack)
    IN IF frame.op = "restore"
       THEN [self EXCEPT !.current_context = frame.ctx, !.stack = rest]
       ELSE CASE frame.node.type = "FunctionDef" ->
                   Zombie_visit_FunctionDef(self, frame.node, rest)
              [] frame.node.type = "Expr" ->
                   Zombie_visit_Expr(self, frame.node, rest)
              [] frame.node.type \in {"For", "While"} ->
                   Zombie_visit_Loop(self, frame.node, rest)
              [] OTHER -> [self EXCEPT !.stack = GenericVisit(frame.node, rest)]

RECURSIVE Zombie_run(_)
Zombie_run(self) ==
    IF self.stack = <<>> THEN self ELSE Zombie_run(Zombie_visit(self))

\* detect_zombie_orbits once ast.parse has returned or raised: the visit of the tree
\* by a new detector, [] on a SyntaxError.
Zombie_detect(source_code, tree) ==
    IF tree.exc = "SyntaxError"
    THEN [exc |-> "", value |-> <<>>]
    ELSE [exc |-> "",
          value |-> Zombie_run([ZombieOrbitDetector(split_lines(source_code)) EXCEPT
                       !.stack = <<VisitFrame(tree.value)>>]).zombies]

\* Mutant: the finding list outlives the call, so a second scan of the same
\* scanner appends to what the first one found.
detect_zombie_orbits_accumulating(source_code) ==
    [exc |-> "",
     value |-> DictGet(DictGet(self_results, "zombie_orbits", EmptyDict),
                       "findings", <<>>)
               \o Zombie_detect(source_code, ast_parse(source_code)).value]

detect_zombie_orbits(source_code) == Zombie_detect(source_code, ast_parse(source_code))

\* ----------------------------------------------------------- evidence voids
Void_get_code_snippet(source_lines, line) ==
    LET start == Max(0, line - 2)
        end == Min(Len(source_lines), line + 2)
    IN SubSeq(source_lines, start + 1, end)

Void_get_call_name(call) ==
    LET func == call.exprs[1] IN
    IF func.type \in {"Name", "Attribute"} THEN func.name ELSE ""

\* Mutant: only `pass` counts as swallowing.
Void_is_swallowed_pass(body) ==
    \/ body = <<>>
    \/ Len(body) = 1 /\ body[1].type = "Pass"

Void_is_swallowed(body) ==
    \/ body = <<>>
    \/ Len(body) = 1 /\ body[1].type = "Pass"
    \/ Len(body) = 1 /\ body[1].type \in {"Continue", "Break"}

\* ast.walk(ast.Module(body=body)) looking for a logging call.
Void_has_logging(body) ==
    \E node \in Walk(Node("Module", 0, "", "", <<>>, body, <<>>)) :
        /\ node.type = "Call"
        /\ Void_get_call_name(node) \in
             {"log", "debug", "info", "warning", "error", "critical",
              "exception", "print"}

Void_is_error_checked(call_node) == FALSE

EvidenceVoid(line, void_type, code_snippet, severity, description, context) ==
    [line |-> line, void_type |-> void_type, code_snippet |-> code_snippet,
     severity |-> severity, description |-> description, context |-> context]

EvidenceVoidDetector(source_lines) ==
    [source_lines |-> source_lines, voids |-> <<>>,
     current_context |-> ModuleContext, stack |-> <<>>]

Void_visit_FunctionDef(self, node, rest) ==
    [self EXCEPT !.current_context = FunctionContext(node.name),
                 !.stack = GenericVisit(node, <<RestoreFrame(self.current_context)>> \o rest)]

\* One iteration of visit_Try's loop: the findings of one handler.
Void_handler_voids(self, handler) ==
    LET snippet == Void_get_code_snippet(self.source_lines, handler.lineno) IN
    (IF handler.name = ""
     THEN <<EvidenceVoid(handler.lineno, "bare_except", snippet, "HIGH",
              <<"Bare except clause catches all exceptions indiscriminately">>,
              self.current_context)>>
     ELSE <<>>)
    \o (IF Void_is_swallowed(handler.body)
        THEN <<EvidenceVoid(handler.lineno, "swallowed_exception", snippet, "HIGH",
                 <<"Exception caught but ignored (no logging, no re-raise)">>,
                 self.current_context)>>
        ELSE <<>>)
    \o (IF ~Void_has_logging(handler.body)
        THEN <<EvidenceVoid(handler.lineno, "no_logging_in_except", snippet, "MEDIUM",
                 <<"Exception handler lacks logging (error invisible)">>,
                 self.current_context)>>
        ELSE <<>>)

RECURSIVE Void_handlers_voids(_, _, _)
Void_handlers_voids(self, handlers, i) ==
    IF i > Len(handlers) THEN <<>>
    ELSE Void_handler_voids(self, handlers[i])
         \o Void_handlers_voids(self, handlers, i + 1)

Void_visit_Try(self, node, rest) ==
    [self EXCEPT !.voids = @ \o Void_handlers_voids(self, node.handlers, 1),
                 !.stack = GenericVisit(node, rest)]

Void_visit_Call(self, node, rest) ==
    LET func_name == Void_get_call_name(node)
        fallible == {"open", "urlopen", "connect", "request", "load", "parse"}
        void == EvidenceVoid(node.lineno, "silent_failure",
                   Void_get_code_snippet(self.source_lines, node.lineno),
                   "MEDIUM",
                   <<"Fallible operation '", func_name, "()' lacks error handling">>,
                   self.current_context)
    IN [self EXCEPT
          !.voids = IF func_name \in fallible /\ ~Void_is_error_checked(node)
                    THEN Append(@, void) ELSE @,
          !.stack = GenericVisit(node, rest)]

Void_visit(self) ==
    LET frame == Head(self.stack)
        rest == Tail(self.stack)
    IN IF frame.op = "restore"
       THEN [self EXCEPT !.current_context = frame.ctx, !.stack = rest]
       ELSE CASE frame.node.type = "FunctionDef" ->
                   Void_visit_FunctionDef(self, frame.node, rest)
              [] frame.node.type = "Try" ->
                   Void_visit_Try(self, frame.node, rest)
              [] frame.node.type = "Call" ->
                   Void_visit_Call(self, frame.node, rest)
              [] OTHER -> [self EXCEPT !.stack = GenericVisit(frame.node, rest)]

RECURSIVE Void_run(_)
Void_run(self) ==
    IF self.stack = <<>> THEN self ELSE Void_run(Void_visit(self))

\* Mutant: no except clause around ast.parse.
Void_detect_uncaught(source_code, tree) ==
    IF tree.exc = "SyntaxError"
    THEN [exc |-> "SyntaxError", value |-> <<>>]
    ELSE [exc |-> "",
          value |-> Void_run([EvidenceVoidDetector(split_lines(source_code)) EXCEPT
                       !.stack = <<VisitFrame(tree.value)>>]).voids]

\* The findings with those of line n moved to the front, for n down to 1:
\* the list in line order, findings of one line in their old order.
RECURSIVE ByLine(_, _)
ByLine(findings, n) ==
    LET OnLine(f) == f.line = n
        Others(f) == f.line # n
    IN IF n = 0 THEN findings
       ELSE ByLine(SelectSeq(findings, OnLine) \o SelectSeq(findings, Others), n - 1)

\* Mutant: the list is returned sorted by line.
Void_detect_sorted(source_code, tree) ==
    IF tree.exc = "SyntaxError"
    THEN [exc |-> "", value |-> <<>>]
    ELSE [exc |-> "",
          value |-> ByLine(Void_run([EvidenceVoidDetector(split_lines(source_code)) EXCEPT
                              !.stack = <<VisitFrame(tree.value)>>]).voids,
                           Len(source_code))]

\* detect_evidence_voids once ast.parse has returned or raised: the visit of the tree
\* by a new detector, [] on a SyntaxError.
Void_detect(source_code, tree) ==
    IF tree.exc = "SyntaxError"
    THEN [exc |-> "", value |-> <<>>]
    ELSE [exc |-> "",
          value |-> Void_run([EvidenceVoidDetector(split_lines(source_code)) EXCEPT
                       !.stack = <<VisitFrame(tree.value)>>]).voids]

detect_evidence_voids(source_code) == Void_detect(source_code, ast_parse(source_code))

\* ------------------------------------------------------------ magic gravity
\* magic_gravity.py is not among the sources: the detector is modelled from
\* the specification (numeric literals outside the allow-list 0, 1, -1; a
\* literal used as a comparison bound weighs more; nothing on a parse
\* failure; the same saturating score as the other detectors).
MagicAllowList == {"0", "1", "-1"}

MagicNumericLiterals == {"0", "1", "-1", "42", "99"}

MagicConstant(line, value, gravity_type, severity, context) ==
    [line |-> line, value |-> value, gravity_type |-> gravity_type,
     severity |-> severity, context |-> context]

MagicGravityDetector(source_lines) ==
    [source_lines |-> source_lines, constants |-> <<>>,
     current_context |-> ModuleContext, stack |-> <<>>]

Magic_is_magic(node) ==
    /\ node.type = "Constant"
    /\ node.name \in MagicNumericLiterals \ MagicAllowList

Magic_visit(self) ==
    LET frame == Head(self.stack)
        rest == Tail(self.stack)
        node == frame.node
        bounds == SelectSeq(node.exprs, Magic_is_magic)
        others == SelectSeq(node.exprs, LAMBDA e : ~Magic_is_magic(e))
    IN IF frame.op = "restore"
       THEN [self EXCEPT !.current_context = frame.ctx, !.stack = rest]
       ELSE CASE node.type = "FunctionDef" ->
                   [self EXCEPT
                      !.current_context = FunctionContext(node.name),
                      !.stack = GenericVisit(node,
                                   <<RestoreFrame(self.current_context)>> \o rest)]
              [] node.type = "Compare" ->
                   [self EXCEPT
                      !.constants = @ \o
                          [i \in 1..Len(bounds) |->
                             MagicConstant(bounds[i].lineno, bounds[i].name,
                                "comparison_bound", "HIGH", self.current_context)],
                      !.stack = [i \in 1..Len(others) |-> VisitFrame(others[i])]
                                \o rest]
              [] Magic_is_magic(node) ->
                   [self EXCEPT
                      !.constants = Append(@,
                          MagicConstant(node.lineno, node.name, "numeric_literal",
                             "MEDIUM", self.current_context)),
                      !.stack = GenericVisit(node, rest)]
              [] OTHER -> [self EXCEPT !.stack = GenericVisit(node, rest)]

RECURSIVE Magic_run(_)
Magic_run(self) ==
    IF self.stack = <<>> THEN self ELSE Magic_run(Magic_visit(self))

\* detect_magic_gravity once ast.parse has returned or raised: the visit of the tree
\* by a new detector, [] on a SyntaxError.
Magic_detect(source_code, tree) ==
    IF tree.exc = "SyntaxError"
    THEN [exc |-> "", value |-> <<>>]
    ELSE [exc |-> "",
          value |-> Magic_run([MagicGravityDetector(split_lines(source_code)) EXCEPT
                       !.stack = <<VisitFrame(tree.value)>>]).constants]

detect_magic_gravity(source_code) == Magic_detect(source_code, ast_parse(source_code))

\* ------------------------------------------------------------------ scores
\* weights.get(severity, 1.0) with weights = {HIGH: 3.0, MEDIUM: 2.0, LOW: 1.0}
WeightOf(severity) ==
    CASE severity = "HIGH" -> 3
      [] severity = "MEDIUM" -> 2
      [] severity = "LOW" -> 1
      [] OTHER -> 1

\* sum(weights.get(x.severity, 1.0) for x in findings)
RECURSIVE SumOfWeights(_)
SumOfWeights(findings) ==
    IF findings = <<>> THEN 0
    ELSE WeightOf(Head(findings).severity) + SumOfWeights(Tail(findings))

calculate_phantom_score(phantoms) ==
    IF phantoms = <<>> THEN 0 ELSE Min(10, SumOfWeights(phantoms))

\* Mutant: the sum normalised by the number of findings.
calculate_zombie_score_mean(zombies) ==
    IF zombies = <<>> THEN 0 ELSE Min(10, SumOfWeights(zombies) \div Len(zombies))

calculate_zombie_score(zombies) ==
    IF zombies = <<>> THEN 0 ELSE Min(10, SumOfWeights(zombies))

\* Mutant: the sum without the cap.
calculate_void_score_uncapped(voids) ==
    IF voids = <<>> THEN 0 ELSE SumOfWeights(voids)

calculate_void_score(voids) ==
    IF voids = <<>> THEN 0 ELSE Min(10, SumOfWeights(voids))

\* From the specification: the same saturating sum as the other detectors.
calculate_dark_mass_score(constants) ==
    IF constants = <<>> THEN 0 ELSE Min(10, SumOfWeights(constants))

\* ----------------------------------------------------------------- scanner
\* One detector's findings with their score: [exc, findings, score].
ScoredMagic(found) ==
    [exc |-> found.exc, findings |-> found.value,
     score |-> calculate_dark_mass_score(found.value)]

ScoredPhantoms(found) ==
    [exc |-> found.exc, findings |-> found.value,
     score |-> calculate_phantom_score(found.value)]

ScoredZombies(found) ==
    [exc |-> found.exc, findings |-> found.value,
     score |-> calculate_zombie_score(found.value)]

ScoredVoids(found) ==
    [exc |-> found.exc, findings |-> found.value,
     score |-> calculate_void_score(found.value)]

DetectorResult(d) ==
    [findings |-> d.findings, score |-> d.score, count |-> Len(d.findings)]

\* DarkMatterScanner.scan_all, self.results being `stored`: the four
\* detectors in their fixed order, each result stored before the next
\* detector runs, then the summary.  Returns [exc, results]; an exception
\* leaves what was stored.  (The progress lines it prints are not part of
\* the scanner's state.)  Each step below takes the locals set so far.
\* Mutant: the total saturates like a detector score.
scan_all_summary_capped(stored, filepath, magic, phantom, zombie, void) ==
    [exc |-> "",
     results |->
        DictSet(stored, "summary",
           [total_score |-> Min(10, magic.score + phantom.score
                                    + zombie.score + void.score),
            total_findings |-> (Len(magic.findings) + Len(phantom.findings)
                                + Len(zombie.findings) + Len(void.findings)),
            filepath |-> filepath])]

scan_all_summary(stored, filepath, magic, phantom, zombie, void) ==
    [exc |-> "",
     results |->
        DictSet(stored, "summary",
           [total_score |-> magic.score + phantom.score + zombie.score + void.score,
            total_findings |-> (Len(magic.findings) + Len(phantom.findings)
                                + Len(zombie.findings) + Len(void.findings)),
            filepath |-> filepath])]

scan_all_voids(stored, filepath, magic, phantom, zombie, void) ==
    IF void.exc # "" THEN [exc |-> void.exc, results |-> stored]
    ELSE scan_all_summary(DictSet(stored, "evidence_voids", DetectorResult(void)),
                          filepath, magic, phantom, zombie, void)

scan_all_zombies(stored, source_code, filepath, magic, phantom, zombie) ==
    IF zombie.exc # "" THEN [exc |-> zombie.exc, results |-> stored]
    ELSE scan_all_voids(DictSet(stored, "zombie_orbits", DetectorResult(zombie)),
                        filepath, magic, phantom, zombie,
                        ScoredVoids(detect_evidence_voids(source_code)))

scan_all_phantoms(stored, source_code, filepath, magic, phantom) ==
    IF phantom.exc # "" THEN [exc |-> phantom.exc, results |-> stored]
    ELSE scan_all_zombies(DictSet(stored, "phantom_loops", DetectorResult(phantom)),
                          source_code, filepath, magic, phantom,
                          ScoredZombies(detect_zombie_orbits(source_code)))

scan_all_magic(stored, source_code, filepath, magic) ==
    IF magic.exc # "" THEN [exc |-> magic.exc, results |-> stored]
    ELSE scan_all_phantoms(DictSet(stored, "magic_gravity", DetectorResult(magic)),
                           source_code, filepath, magic,
                           ScoredPhantoms(detect_phantom_loops(source_code)))

scan_all(stored, source_code, filepath) ==
    scan_all_magic(stored, source_code, filepath,
                   ScoredMagic(detect_magic_gravity(source_code)))

\* ------------------------------------------------------------- text report
\* The report is the list `lines` before the final "\n".join: one entry per
\* lines.append, each entry the pieces of its f-string.  The pictograph that
\* opens a title is left out and the bullet of a recommendation is written
\* "-": the entries are compared as wholes, never searched.
Rule70 == "======================================================================"

Dash70 == "----------------------------------------------------------------------"

\* f"{x:.1f}" of a whole-valued score
Format1f(x) == <<ToString(x), ".0">>

RenderMagic(const) ==
    << <<"\nLine ", ToString(const.line), " | ">> \o const.context,
       <<"  Value: ", const.value>>,
       <<"  Type: ", const.gravity_type>>,
       <<"  Severity: ", const.severity>> >>

RenderPhantom(loop) ==
    << <<"\nLine ", ToString(loop.line), " | ">> \o loop.context,
       <<"  Type: ", loop.phantom_type>>,
       <<"  Issue: ">> \o loop.description,
       <<"  Severity: ", loop.severity>> >>

\* Mutant: the code snippet in place of the description.
RenderZombie_snippet(z) ==
    << <<"\nLine ", ToString(z.line), " | ">> \o z.context,
       <<"  Type: ", z.zombie_type>>,
       [i \in 1..Len(z.code_snippet) |-> z.code_snippet[i].text],
       <<"  Severity: ", z.severity>> >>

RenderZombie(z) ==
    << <<"\nLine ", ToString(z.line), " | ">> \o z.context,
       <<"  Type: ", z.zombie_type>>,
       <<"  Issue: ">> \o z.description,
       <<"  Severity: ", z.severity>> >>

RenderVoid(v) ==
    << <<"\nLine ", ToString(v.line), " | ">> \o v.context,
       <<"  Type: ", v.void_type>>,
       <<"  Issue: ">> \o v.description,
       <<"  Severity: ", v.severity>> >>

\* The four lines of one finding of the section of detector `key`.
RenderFinding(key, finding) ==
    CASE key = "magic_gravity" -> RenderMagic(finding)
      [] key = "phantom_loops" -> RenderPhantom(finding)
      [] key = "zombie_orbits" -> RenderZombie(finding)
      [] key = "evidence_voids" -> RenderVoid(finding)

\* Mutant: every finding is listed.
RECURSIVE RenderFindings_all(_, _, _)
RenderFindings_all(key, findings, i) ==
    IF i > Len(findings) THEN <<>>
    ELSE RenderFinding(key, findings[i]) \o RenderFindings_all(key, findings, i + 1)

\* The entries of the listed findings, findings[:5].
RECURSIVE RenderFindings(_, _, _)
RenderFindings(key, findings, i) ==
    IF i > Min(5, Len(findings)) THEN <<>>
    ELSE RenderFinding(key, findings[i]) \o RenderFindings(key, findings, i + 1)

\* Mutant: a section for every detector that was run.
TextSection_unguarded(results, key, title) ==
    LET r == DictGet(results, key, EmptyDict) IN
    IF DictGet(r, "count", -1) >= 0
    THEN << <<"\n", Dash70>>,
            <<title, " (", ToString(r["count"]), " findings, score: ">>
               \o Format1f(r["score"]) \o <<")">>,
            <<Dash70>> >>
         \o RenderFindings(key, r["findings"], 1)
    ELSE <<>>

\* One detector's section: nothing unless its count is positive.
TextSection(results, key, title) ==
    LET r == DictGet(results, key, EmptyDict) IN
    IF DictGet(r, "count", 0) > 0
    THEN << <<"\n", Dash70>>,
            <<title, " (", ToString(r["count"]), " findings, score: ">>
               \o Format1f(r["score"]) \o <<")">>,
            <<Dash70>> >>
         \o RenderFindings(key, r["findings"], 1)
    ELSE <<>>

Recommendations ==
    << <<"\n", Rule70>>,
       <<"\nRECOMMENDATIONS:">>,
       <<"  - Document or remove magic constants">>,
       <<"  - Fix phantom loops claiming false infinity">>,
       <<"  - Eliminate zombie code running without purpose">>,
       <<"  - Add logging/monitoring to evidence voids">>,
       <<"\n  Dark matter isn't always bad - but it should be intentional.">>,
       <<"  Make invisible forces visible through documentation and design.">> >>

generate_text_report(results) ==
    LET summary == DictGet(results, "summary", EmptyDict) IN
    << <<"\n", Rule70>>,
       <<"DARK MATTER DETECTION REPORT">>,
       <<Rule70>>,
       <<"\nFile: ", DictGet(summary, "filepath", "unknown")>>,
       <<"Total Dark Matter Score: ">>
          \o Format1f(DictGet(summary, "total_score", 0)),
       <<"Total Findings: ", ToString(DictGet(summary, "total_findings", 0))>> >>
    \o TextSection(results, "magic_gravity", "MAGIC GRAVITY")
    \o TextSection(results, "phantom_loops", "PHANTOM LOOPS")
    \o TextSection(results, "zombie_orbits", "ZOMBIE ORBITS")
    \o TextSection(results, "evidence_voids", "EVIDENCE VOIDS")
    \o Recommendations

\* ------------------------------------------------------------- JSON report
\* The report is the document handed to json.dumps.
JsonMagic(c) ==
    [line |-> c.line, value |-> c.value, type |-> c.gravity_type,
     severity |-> c.severity, context |-> c.context]

\* Mutant: the whole PhantomLoop is serialized.
JsonPhantom_asdict(p) ==
    [line |-> p.line, type |-> p.phantom_type, description |-> p.description,
     severity |-> p.severity, context |-> p.context,
     code_snippet |-> p.code_snippet, exit_mechanism |-> p.exit_mechanism]

JsonPhantom(p) ==
    [line |-> p.line, type |-> p.phantom_type, description |-> p.description,
     severity |-> p.severity, context |-> p.context]

\* Mutant: the severity where the type tag belongs.
JsonZombie_severity(z) ==
    [line |-> z.line, type |-> z.severity, description |-> z.description,
     severity |-> z.severity, context |-> z.context]

JsonZombie(z) ==
    [line |-> z.line, type |-> z.zombie_type, description |-> z.description,
     severity |-> z.severity, context |-> z.context]

JsonVoid(v) ==
    [line |-> v.line, type |-> v.void_type, description |-> v.description,
     severity |-> v.severity, context |-> v.context]

\* The dict of one finding of detector `key`.
JsonFinding(key, finding) ==
    CASE key = "magic_gravity" -> JsonMagic(finding)
      [] key = "phantom_loops" -> JsonPhantom(finding)
      [] key = "zombie_orbits" -> JsonZombie(finding)
      [] key = "evidence_voids" -> JsonVoid(finding)

\* One detector's entry: self.results[key] must exist.
JsonSection(results, key) ==
    [score |-> results[key]["score"],
     count |-> results[key]["count"],
     findings |-> [i \in 1..Len(results[key]["findings"]) |->
                     JsonFinding(key, results[key]["findings"][i])]]

DetectorKeys == <<"magic_gravity", "phantom_loops", "zombie_orbits", "evidence_voids">>

\* Returns [exc, value]: KeyError when a detector's entry is missing.
\* Mutant: a missing detector entry gives an empty document, not a KeyError.
generate_json_report_get(results) ==
    IF \E i \in 1..4 : DetectorKeys[i] \notin DOMAIN results
    THEN [exc |-> "", value |-> [summary |-> DictGet(results, "summary", EmptyDict)]]
    ELSE [exc |-> "",
          value |->
            [summary |-> DictGet(results, "summary", EmptyDict),
             magic_gravity |-> JsonSection(results, "magic_gravity"),
             phantom_loops |-> JsonSection(results, "phantom_loops"),
             zombie_orbits |-> JsonSection(results, "zombie_orbits"),
             evidence_voids |-> JsonSection(results, "evidence_voids")]]

generate_json_report(results) ==
    IF \E i \in 1..4 : DetectorKeys[i] \notin DOMAIN results
    THEN [exc |-> "KeyError", value |-> EmptyDict]
    ELSE [exc |-> "",
          value |->
            [summary |-> DictGet(results, "summary", EmptyDict),
             magic_gravity |-> JsonSection(results, "magic_gravity"),
             phantom_loops |-> JsonSection(results, "phantom_loops"),
             zombie_orbits |-> JsonSection(results, "zombie_orbits"),
             evidence_voids |-> JsonSection(results, "evidence_voids")]]

JsonReturned(r) ==
    [exc |-> r.exc, format |-> "json", text |-> <<>>, json |-> r.value]

\* generate_report(format): [exc, format, text, json] of the report returned.
generate_report(results, format) ==
    IF format = "json"
    THEN JsonReturned(generate_json_report(results))
    ELSE [exc |-> "", format |-> "text",
          text |-> generate_text_report(results), json |-> EmptyDict]

\* ------------------------------------------------------------ source texts
Line(indent, text) == [indent |-> indent, text |-> text]

\* The blocks a scanned text is built from: one that fires each detector
\* three times or more, one clean, two that do not parse on their own.
Blocks ==
    { <<Line(0, "while True:"), Line(1, "break"),
        Line(0, "def g():"), Line(1, "while True:"), Line(2, "return v"),
        Line(0, "while True:"), Line(1, "raise")>>,
      <<Line(0, "def f():"), Line(1, "for i in xs:"), Line(2, "pass"),
        Line(1, "compute()")>>,
      <<Line(0, "try:"), Line(1, "open(p)"), Line(0, "except:"), Line(1, "pass")>>,
      <<Line(0, "x = 42"), Line(0, "while x < 99:"), Line(1, "x = 42")>>,
      <<Line(0, "print(e)")>>,
      <<Line(0, "while x:")>>,
      <<Line(1, "pass")>> }

\* The texts of at most n blocks; the empty text is one empty line.
RECURSIVE Programs(_)
Programs(n) ==
    IF n = 0 THEN {}
    ELSE Blocks \cup Programs(n - 1)
         \cup {p \o b : p \in Programs(n - 1), b \in Blocks}

Sources == {<<Line(0, "")>>} \cup Programs(MaxBlocks)

FilePaths == {"unknown", "a.py"}

Formats == {"text", "json"}

\* ----------------------------------------------------------------- actions
NoReport == [format |-> "none", text |-> <<>>, json |-> EmptyDict]

NoHistory == [scans |-> {}, text |-> {}, json |-> {}]

\* A detect_* call not made yet.
NotCalled == [pc |-> "idle", self |-> EmptyDict, returned |-> <<>>]

DetectorNames == {"magic_gravity", "phantom_loops", "zombie_orbits", "evidence_voids"}

ParIdle == running = [d \in DetectorNames |-> NotCalled]

ScoreIdle ==
    /\ score_fn = "none"
    /\ score_input = <<>>
    /\ score_output = -1
    /\ score_before = -1

\* DarkMatterScanner(self_source_code, self_filepath)
Init ==
    /\ self_source_code \in Sources
    /\ self_filepath \in FilePaths
    /\ self_results = EmptyDict
    /\ report = NoReport
    /\ error = ""
    /\ scan_count = 0
    /\ history = NoHistory
    /\ ScoreIdle
    /\ ParIdle

\* scan_all has returned (or raised) r.
ScanAllReturns(r) ==
    /\ self_results' = r.results
    /\ error' = r.exc
    /\ history' = IF r.exc = ""
                  THEN [history EXCEPT !.scans = @ \cup {r.results}]
                  ELSE history

\* scanner.scan_all()
ScanAll ==
    /\ scan_count < MaxScans
    /\ ScanAllReturns(scan_all(self_results, self_source_code, self_filepath))
    /\ scan_count' = scan_count + 1
    /\ report' = NoReport
    /\ UNCHANGED <<self_source_code, self_filepath, scoreVars, parVars>>

\* generate_report has returned (or raised) r.
GenerateReportReturns(r) ==
    /\ error' = r.exc
    /\ report' = IF r.exc = ""
                 THEN [format |-> r.format, text |-> r.text, json |-> r.json]
                 ELSE report
    /\ history' = IF r.exc # "" \/ "summary" \notin DOMAIN self_results
                  THEN history
                  ELSE IF r.format = "json"
                  THEN [history EXCEPT !.json = @ \cup {r.json}]
                  ELSE [history EXCEPT !.text = @ \cup {r.text}]

\* scanner.generate_report(format)
GenerateReport(format) ==
    /\ GenerateReportReturns(generate_report(self_results, format))
    /\ UNCHANGED <<self_source_code, self_filepath, self_results, scan_count, scoreVars, parVars>>

\* A second scanner built on the same input: DarkMatterScanner.__init__ again.
NewScanner ==
    /\ self_results # EmptyDict
    /\ self_results' = EmptyDict
    /\ report' = NoReport
    /\ error' = ""
    /\ UNCHANGED <<self_source_code, self_filepath, scan_count, history, scoreVars, parVars>>

Next ==
    \/ ScanAll
    \/ \E format \in Formats : GenerateReport(format)
    \/ NewScanner

Spec == Init /\ [][Next]_vars

\* ------------------------------------------------- score functions, alone
\* The three score functions applied to lists of findings of every
\* severity, grown one finding at a time.
ScoreFunctions ==
    {"calculate_phantom_score", "calculate_zombie_score", "calculate_void_score"}

\* HIGH, MEDIUM, LOW, and one string that is none of them.
Severities == {"HIGH", "MEDIUM", "LOW", "INFO"}

ScannerIdle ==
    /\ self_source_code = <<Line(0, "")>>
    /\ self_filepath = "unknown"
    /\ self_results = EmptyDict
    /\ report = NoReport
    /\ error = ""
    /\ scan_count = 0
    /\ history = NoHistory

InitScore ==
    /\ ScannerIdle
    /\ score_fn \in ScoreFunctions
    /\ score_input = <<>>
    /\ score_output = -1
    /\ score_before = -1
    /\ ParIdle

AllHigh(fs) == \A i \in 1..Len(fs) : fs[i].severity = "HIGH"

\* One more finding in the list: what was returned for the shorter list is
\* kept aside.
AddFinding(severity) ==
    /\ \/ Len(score_input) < MaxFindings
       \/ /\ AllHigh(score_input)
          /\ severity = "HIGH"
          /\ Len(score_input) < MaxHighRun
    /\ score_input' = Append(score_input,
                             [line |-> Len(score_input) + 1, severity |-> severity])
    /\ score_before' = score_output
    /\ score_output' = -1
    /\ UNCHANGED <<score_fn, scannerVars, parVars>>

\* The call of the function under test on the list.
Calculate ==
    /\ score_output = -1
    /\ score_output' =
         CASE score_fn = "calculate_phantom_score" -> calculate_phantom_score(score_input)
           [] score_fn = "calculate_zombie_score" -> calculate_zombie_score(score_input)
           [] score_fn = "calculate_void_score" -> calculate_void_score(score_input)
    /\ UNCHANGED <<score_fn, score_input, score_before, scannerVars, parVars>>

NextScore ==
    \/ \E severity \in Severities : AddFinding(severity)
    \/ Calculate

SpecScore == InitScore /\ [][NextScore]_vars

\* ------------------------------------------------ detectors, side by side
\* The four detect_* calls on one source text, their steps interleaved in
\* every way: the call up to the new detector object, each visit of a node,
\* the return of the finding list.
ParSources ==
    { <<Line(0, "def f():"), Line(1, "compute()"),
        Line(0, "while True:"), Line(1, "break")>>,
      <<Line(0, "try:"), Line(1, "x = 42"), Line(0, "except:"), Line(1, "pass")>>,
      <<Line(0, "while x:")>> }

InitPar ==
    /\ self_source_code \in ParSources
    /\ self_filepath = "unknown"
    /\ self_results = EmptyDict
    /\ report = NoReport
    /\ error = ""
    /\ scan_count = 0
    /\ history = NoHistory
    /\ ScoreIdle
    /\ ParIdle

\* detector = <Detector>(source_lines)
NewDetector(d, source_lines) ==
    CASE d = "magic_gravity" -> MagicGravityDetector(source_lines)
      [] d = "phantom_loops" -> PhantomLoopDetector(source_lines)
      [] d = "zombie_orbits" -> ZombieOrbitDetector(source_lines)
      [] d = "evidence_voids" -> EvidenceVoidDetector(source_lines)

\* One visit of the detector's traversal.
DetectorVisit(d, self) ==
    CASE d = "magic_gravity" -> Magic_visit(self)
      [] d = "phantom_loops" -> Phantom_visit(self)
      [] d = "zombie_orbits" -> Zombie_visit(self)
      [] d = "evidence_voids" -> Void_visit(self)

\* return detector.<findings>
DetectorFindings(d, self) ==
    CASE d = "magic_gravity" -> self.constants
      [] d = "phantom_loops" -> self.phantoms
      [] d = "zombie_orbits" -> self.zombies
      [] d = "evidence_voids" -> self.voids

\* ast.parse has returned or raised tree: [] at once on a SyntaxError, a new
\* detector about to visit the tree otherwise.
DetectCalled(d, tree) ==
    running' = [running EXCEPT ![d] =
                  IF tree.exc = "SyntaxError"
                  THEN [pc |-> "done", self |-> EmptyDict, returned |-> <<>>]
                  ELSE [pc |-> "visiting",
                        self |-> [NewDetector(d, split_lines(self_source_code))
                                    EXCEPT !.stack = <<VisitFrame(tree.value)>>],
                        returned |-> <<>>]]

\* detect_<d>(source_code) is called.
DetectCall(d) ==
    /\ running[d].pc = "idle"
    /\ DetectCalled(d, ast_parse(self_source_code))
    /\ UNCHANGED <<scannerVars, scoreVars>>

\* The detector of d visits its next node.
DetectVisit(d) ==
    /\ running[d].pc = "visiting"
    /\ running[d].self.stack # <<>>
    /\ running' = [running EXCEPT ![d].self = DetectorVisit(d, @)]
    /\ UNCHANGED <<scannerVars, scoreVars>>

\* detector.visit(tree) is over: the list is returned.
DetectReturn(d) ==
    /\ running[d].pc = "visiting"
    /\ running[d].self.stack = <<>>
    /\ running' = [running EXCEPT ![d] =
                     [pc |-> "done", self |-> EmptyDict,
                      returned |-> DetectorFindings(d, running[d].self)]]
    /\ UNCHANGED <<scannerVars, scoreVars>>

NextPar ==
    \E d \in DetectorNames :
       \/ DetectCall(d)
       \/ DetectVisit(d)
       \/ DetectReturn(d)

SpecPar == InitPar /\ [][NextPar]_vars

\* ------------------------------------------------- one detector, one text
\* One detect_* call on one text, visit by visit, over families of texts
\* built for the rules of the detectors.
\* The line texts that open a function definition.
FunctionOpeners == {"def f():", "def g():", "async def h():"}

\* A block one level deeper.
Shift(block) ==
    [i \in 1..Len(block) |-> Line(block[i].indent + 1, block[i].text)]

\* Statements every detector under src/ has a finding for.
Probes ==
    { <<Line(0, "open(p)")>>,
      <<Line(0, "while True:"), Line(1, "break")>> }

\* Function definitions nested `depth` deep: each body is the probe, the
\* next function and the probe again.
RECURSIVE Nested(_, _)
Nested(depth, probe) ==
    IF depth = 0 THEN {<<>>}
    ELSE { <<Line(0, opener)>> \o Shift(probe) \o Shift(inner) \o Shift(probe) :
              opener \in FunctionOpeners, inner \in Nested(depth - 1, probe) }

\* The probe, the nested functions, the probe again at module level.
NestedSources ==
    UNION { { probe \o nest \o probe : nest \in Nested(depth, probe) } :
               depth \in 1..MaxDepth, probe \in Probes }

\* The blocks of at most n statements drawn from `statements`.
RECURSIVE Bodies(_, _)
Bodies(statements, n) ==
    IF n = 1 THEN statements
    ELSE Bodies(statements, n - 1)
         \cup { body \o statement :
                  body \in Bodies(statements, n - 1), statement \in statements }

\* What an exception handler may hold: the statements that swallow, a
\* re-raise, a logging call, a logging call deeper in the handler.
HandlerStatements ==
    { <<Line(0, "pass")>>, <<Line(0, "continue")>>, <<Line(0, "break")>>,
      <<Line(0, "raise")>>, <<Line(0, "print(e)")>>,
      <<Line(0, "for i in xs:"), Line(1, "print(e)")>>,
      <<Line(0, "try:"), Line(1, "open(p)"), Line(0, "except:"), Line(1, "pass")>> }

TryBodies == { <<Line(0, "open(p)")>>, <<Line(0, "compute()")>> }

\* try statements with one handler, and with two.
TrySources ==
    { <<Line(0, "try:")>> \o Shift(tried) \o <<Line(0, clause)>> \o Shift(handler) :
         tried \in TryBodies, clause \in ExceptClauses,
         handler \in Bodies(HandlerStatements, MaxBody) }
    \cup
    { <<Line(0, "try:")>> \o Shift(tried) \o <<Line(0, "except E:")>> \o Shift(first)
         \o <<Line(0, clause)>> \o Shift(second) :
         tried \in TryBodies, clause \in ExceptClauses,
         first \in HandlerStatements, second \in HandlerStatements }

\* The line texts that open a loop.
LoopOpeners == {"while True:", "while x:", "while x < 99:", "for i in xs:"}

\* What a loop body may hold: the exits, the no-ops, a call, a loop.
LoopStatements ==
    { <<Line(0, "break")>>, <<Line(0, "return v")>>, <<Line(0, "raise")>>,
      <<Line(0, "pass")>>, <<Line(0, "continue")>>, <<Line(0, "compute()")>>,
      <<Line(0, "while True:"), Line(1, "return")>> }

\* One loop at module level.
LoopSources ==
    { <<Line(0, opener)>> \o Shift(body) :
         opener \in LoopOpeners, body \in Bodies(LoopStatements, MaxBody) }

\* Statements that are a bare expression, and an assigned call.
ExpressionStatements ==
    { <<Line(0, "compute()")>>, <<Line(0, "print(e)")>>, <<Line(0, "send(m)")>>,
      <<Line(0, "open(p)")>>, <<Line(0, "a + b")>>, <<Line(0, "compute() + b")>>,
      <<Line(0, "'doc'")>>, <<Line(0, "x = open(p)")>> }

\* Bare expressions at module level.
ExpressionSources == Bodies(ExpressionStatements, MaxBody)

\* What a function body may hold: returns with and without a value, calls
\* in and out of the side-effect lists, stores, a nested function that
\* returns a value, a logging call inside a loop.
FunctionStatements ==
    { <<Line(0, "return")>>, <<Line(0, "return v")>>, <<Line(0, "pass")>>,
      <<Line(0, "compute()")>>, <<Line(0, "print(e)")>>, <<Line(0, "send(m)")>>,
      <<Line(0, "self.x = v")>>, <<Line(0, "x = 1")>>,
      <<Line(0, "def g():"), Line(1, "return v")>>,
      <<Line(0, "def g():"), Line(1, "pass")>>,
      <<Line(0, "for i in xs:"), Line(1, "print(e)")>>,
      <<Line(0, "for i in xs:"), Line(1, "pass")>> }

\* One function at module level.
FunctionSources ==
    { <<Line(0, "def f():")>> \o Shift(body) :
         body \in Bodies(FunctionStatements, MaxBody) }

TraverseSources ==
    NestedSources \cup TrySources \cup LoopSources \cup ExpressionSources
       \cup FunctionSources

InitTraverse ==
    /\ self_source_code \in TraverseSources
    /\ self_filepath = "unknown"
    /\ self_results = EmptyDict
    /\ report = NoReport
    /\ error = ""
    /\ scan_count = 0
    /\ history = NoHistory
    /\ ScoreIdle
    /\ ParIdle

\* No other detect_* call has been made.
OnlyCall(d) == \A e \in DetectorNames \ {d} : running[e].pc = "idle"

TraverseCall(d) == OnlyCall(d) /\ DetectCall(d)

TraverseVisit(d) == OnlyCall(d) /\ DetectVisit(d)

TraverseReturn(d) == OnlyCall(d) /\ DetectReturn(d)

NextTraverse ==
    \E d \in DetectorNames :
       \/ TraverseCall(d)
       \/ TraverseVisit(d)
       \/ TraverseReturn(d)

SpecTraverse == InitTraverse /\ [][NextTraverse]_vars

\* ------------------------------------------------------------------ claims
CountSeverity(fs, severity) ==
    Cardinality({i \in 1..Len(fs) : fs[i].severity = severity})

\* C1: each score function returns 0.0 for the empty list and otherwise
\* min(10.0, 3.0 * #HIGH + 2.0 * #MEDIUM + 1.0 * #LOW), never divided by the
\* number of findings: 20 HIGH findings score exactly 10.0.
C1_ScoreIsCappedSum ==
    score_output # -1 =>
       /\ score_input = <<>> => score_output = 0
       /\ (/\ score_input # <<>>
           /\ \A i \in 1..Len(score_input) :
                 score_input[i].severity \in {"HIGH", "MEDIUM", "LOW"})
          => score_output = Min(10, 3 * CountSeverity(score_input, "HIGH")
                                    + 2 * CountSeverity(score_input, "MEDIUM")
                                    + CountSeverity(score_input, "LOW"))
       /\ (Len(score_input) = 20 /\ AllHigh(score_input)) => score_output = 10

C1_Witness ==
    /\ score_fn = "calculate_zombie_score"
    /\ Len(score_input) = 20
    /\ AllHigh(score_input)
    /\ score_output = 10

\* C2: a score lies in [0.0, 10.0] and the score of a list with one more
\* finding, of any severity, is not below the score of the list without it.
C2_ScoreBoundedMonotone ==
    score_output # -1 =>
       /\ 0 <= score_output
       /\ score_output <= 10
       /\ score_before # -1 => score_output >= score_before

C2_Witness ==
    /\ score_fn = "calculate_void_score"
    /\ score_before = 9
    /\ score_output = 10
    /\ score_input[Len(score_input)].severity = "INFO"

\* ---- helpers of the report claims
ScanCompleted == "summary" \in DOMAIN self_results

Key(k) == DetectorKeys[k]

SectionTitles == <<"MAGIC GRAVITY", "PHANTOM LOOPS", "ZOMBIE ORBITS", "EVIDENCE VOIDS">>

StoredCount(k) == DictGet(DictGet(self_results, Key(k), EmptyDict), "count", 0)

StoredFindings(k) == DictGet(DictGet(self_results, Key(k), EmptyDict), "findings", <<>>)

IsTitle(entry) == \E k \in 1..4 : entry[1] = SectionTitles[k]

\* The section titles of a text report, in the order they appear.
TitlesOf(text) ==
    LET headers == SelectSeq(text, IsTitle)
    IN [i \in 1..Len(headers) |-> headers[i][1]]

\* The titles of the detectors with a positive stored count, in scan order.
ExpectedTitles ==
    LET Positive(t) == \E k \in 1..4 : SectionTitles[k] = t /\ StoredCount(k) > 0
    IN SelectSeq(SectionTitles, Positive)

\* Where detector k's section header stands in the text (0: nowhere).
HeaderAt(text, k) ==
    IF \E h \in 1..Len(text) : text[h][1] = SectionTitles[k]
    THEN CHOOSE h \in 1..Len(text) : text[h][1] = SectionTitles[k]
    ELSE 0

\* Entry j (1..4) of the i-th finding listed under the header at h.
ListedEntry(text, h, i, j) == text[h + 1 + 4 * (i - 1) + j]

IsSeparator(entry) == entry = <<"\n", Dash70>> \/ entry = <<"\n", Rule70>>

IsFindingStart(entry) == entry[1] = "\nLine "

\* How many findings the text lists.
ListedTotal(text) == Len(SelectSeq(text, IsFindingStart))

Shown(k) == Min(5, StoredCount(k))

\* C3: after scan_all each detector's count is the length of its findings
\* list, total_findings is the sum of the four counts, and total_score is the
\* plain sum of the four detector scores, each in [0, 10], so in [0, 40].
C3_SummaryIsSum ==
    ScanCompleted =>
       /\ \A k \in 1..4 :
             /\ Key(k) \in DOMAIN self_results
             /\ self_results[Key(k)]["count"] = Len(self_results[Key(k)]["findings"])
             /\ self_results[Key(k)]["score"] >= 0
             /\ self_results[Key(k)]["score"] <= 10
       /\ self_results["summary"]["total_findings"] =
             StoredCount(1) + StoredCount(2) + StoredCount(3) + StoredCount(4)
       /\ self_results["summary"]["total_score"] =
             self_results[Key(1)]["score"] + self_results[Key(2)]["score"]
             + self_results[Key(3)]["score"] + self_results[Key(4)]["score"]
       /\ self_results["summary"]["total_score"] >= 0
       /\ self_results["summary"]["total_score"] <= 40

C3_Witness ==
    /\ ScanCompleted
    /\ self_results["summary"]["total_score"] = 20
    /\ self_results["zombie_orbits"]["score"] = 10
    /\ self_results["evidence_voids"]["score"] = 10
    /\ self_results["summary"]["total_findings"] = 8

NotValidPython == ast_parse(self_source_code).exc = "SyntaxError"

NoFindings(detected) == detected.exc = "" /\ detected.value = <<>>

\* C4: on a text that is not valid Python each detector returns [] without
\* raising, scan_all completes, and the scan and its reports show count 0 and
\* score 0.0 for every detector and totals of 0.
C4_ParseFailureIsEmptyScan ==
    NotValidPython =>
       /\ NoFindings(detect_phantom_loops(self_source_code))
       /\ NoFindings(detect_zombie_orbits(self_source_code))
       /\ NoFindings(detect_evidence_voids(self_source_code))
       /\ error # "SyntaxError"
       /\ self_results # EmptyDict =>
             /\ ScanCompleted
             /\ \A k \in 1..4 :
                   /\ self_results[Key(k)]["count"] = 0
                   /\ self_results[Key(k)]["score"] = 0
                   /\ self_results[Key(k)]["findings"] = <<>>
             /\ self_results["summary"]["total_score"] = 0
             /\ self_results["summary"]["total_findings"] = 0
       /\ (ScanCompleted /\ report.format = "json") =>
             /\ \A k \in 1..4 :
                   /\ report.json[Key(k)]["count"] = 0
                   /\ report.json[Key(k)]["score"] = 0
                   /\ report.json[Key(k)]["findings"] = <<>>
             /\ report.json["summary"]["total_score"] = 0
             /\ report.json["summary"]["total_findings"] = 0
       /\ (ScanCompleted /\ report.format = "text") =>
             /\ report.text[5] = <<"Total Dark Matter Score: ", "0", ".0">>
             /\ report.text[6] = <<"Total Findings: ", "0">>
             /\ TitlesOf(report.text) = <<>>

C4_Witness ==
    /\ NotValidPython
    /\ Len(self_source_code) > 4
    /\ ScanCompleted
    /\ report.format = "json"
    /\ report.json["summary"]["total_findings"] = 0

\* C5: every completed scan of the same input, by the same scanner again or
\* by a new one, stores the same results, and every report of a format made
\* from a completed scan is the same: nothing accumulates from scan to scan.
C5_ScanIsDeterministic ==
    /\ Cardinality(history.scans) <= 1
    /\ Cardinality(history.text) <= 1
    /\ Cardinality(history.json) <= 1
    /\ ScanCompleted => history.scans = {self_results}
    /\ (ScanCompleted /\ report.format = "json") => history.json = {report.json}
    /\ (ScanCompleted /\ report.format = "text") => history.text = {report.text}

C5_Witness ==
    /\ scan_count = 2
    /\ ScanCompleted
    /\ self_results["zombie_orbits"]["count"] > 0
    /\ history.scans = {self_results}
    /\ report.format = "json"
    /\ Cardinality(history.text) = 1

\* What detector d returns when it is run alone on the text.
RunAlone(d) ==
    CASE d = "magic_gravity" -> detect_magic_gravity(self_source_code).value
      [] d = "phantom_loops" -> detect_phantom_loops(self_source_code).value
      [] d = "zombie_orbits" -> detect_zombie_orbits(self_source_code).value
      [] d = "evidence_voids" -> detect_evidence_voids(self_source_code).value

\* C6: however the calls of the detectors are ordered or interleaved, each
\* detector returns the findings it returns when run alone on the text, and
\* a detector that is visiting holds the source lines it was built with.
C6_FindingsIndependentOfSchedule ==
    \A d \in DetectorNames :
       /\ running[d].pc = "done" => running[d].returned = RunAlone(d)
       /\ running[d].pc = "visiting" =>
             running[d].self.source_lines = split_lines(self_source_code)

C6_Witness ==
    /\ \A d \in DetectorNames : running[d].pc = "done"
    /\ Len(running["phantom_loops"].returned) = 1
    /\ running["phantom_loops"].returned[1].context = ModuleContext
    /\ Len(running["zombie_orbits"].returned) > 0
    /\ running["zombie_orbits"].returned[Len(running["zombie_orbits"].returned)].context
          = FunctionContext("f")

\* C7: for each detector of a completed scan the JSON report holds as many
\* findings as the detector's count, and the text report lists min(5, count)
\* of them: the first ones of the stored list, in order.
C7_JsonAllTextFirstFive ==
    ScanCompleted =>
       /\ report.format = "json" =>
             \A k \in 1..4 :
                /\ report.json[Key(k)]["count"] = StoredCount(k)
                /\ Len(report.json[Key(k)]["findings"]) = StoredCount(k)
                /\ \A i \in 1..StoredCount(k) :
                      report.json[Key(k)]["findings"][i].line = StoredFindings(k)[i].line
       /\ report.format = "text" =>
             /\ ListedTotal(report.text) = Shown(1) + Shown(2) + Shown(3) + Shown(4)
             /\ \A k \in 1..4 :
                   StoredCount(k) > 0 =>
                      /\ HeaderAt(report.text, k) > 0
                      /\ \A i \in 1..Shown(k) :
                            ListedEntry(report.text, HeaderAt(report.text, k), i, 1)
                               = <<"\nLine ", ToString(StoredFindings(k)[i].line), " | ">>
                                    \o StoredFindings(k)[i].context
                      /\ IsSeparator(ListedEntry(report.text, HeaderAt(report.text, k),
                                                 Shown(k) + 1, 1))

C7_Witness ==
    /\ ScanCompleted
    /\ report.format = "text"
    /\ StoredCount(2) = 6
    /\ ListedTotal(report.text) = 5

\* C8: the text report has a section for a detector exactly when its count
\* is positive, the sections stand in the order magic gravity, phantom loops,
\* zombie orbits, evidence voids after the header with the file and the
\* totals, and the block of four recommendations ends every report, also one
\* without findings.
C8_TextLayout ==
    report.format = "text" =>
       /\ TitlesOf(report.text) = ExpectedTitles
       /\ Len(report.text) >= 14
       /\ report.text[2] = <<"DARK MATTER DETECTION REPORT">>
       /\ report.text[4] = <<"\nFile: ",
                             DictGet(DictGet(self_results, "summary", EmptyDict),
                                     "filepath", "unknown")>>
       /\ report.text[5][1] = "Total Dark Matter Score: "
       /\ report.text[6][1] = "Total Findings: "
       /\ \A k \in 1..4 : HeaderAt(report.text, k) = 0 \/ HeaderAt(report.text, k) > 6
       /\ SubSeq(report.text, Len(report.text) - 7, Len(report.text)) =
             << <<"\n", Rule70>>,
                <<"\nRECOMMENDATIONS:">>,
                <<"  - Document or remove magic constants">>,
                <<"  - Fix phantom loops claiming false infinity">>,
                <<"  - Eliminate zombie code running without purpose">>,
                <<"  - Add logging/monitoring to evidence voids">>,
                <<"\n  Dark matter isn't always bad - but it should be intentional.">>,
                <<"  Make invisible forces visible through documentation and design.">> >>
       /\ \A k \in 1..4 : HeaderAt(report.text, k) < Len(report.text) - 7

C8_Witness ==
    /\ report.format = "text"
    /\ ScanCompleted
    /\ TitlesOf(report.text) = <<"ZOMBIE ORBITS", "EVIDENCE VOIDS">>
    /\ StoredCount(1) = 0
    /\ StoredCount(2) = 0

\* The type tag and the description a finding of detector k carries.
TypeOf(k, f) ==
    CASE k = 1 -> f.gravity_type
      [] k = 2 -> f.phantom_type
      [] k = 3 -> f.zombie_type
      [] k = 4 -> f.void_type

\* Some piece of the entry is a line of the finding's code snippet.
ShowsSnippet(entry, f) ==
    \E p \in 1..Len(entry) : \E n \in 1..Len(f.code_snippet) :
       entry[p] = f.code_snippet[n].text

\* C9 as stated: every finding listed in a section of the text report is
\* rendered with its line, its source snippet, its type and its severity.
C9_ListedWithSnippet ==
    (ScanCompleted /\ report.format = "text") =>
       \A k \in 2..4 : \A i \in 1..Shown(k) :
          /\ ListedEntry(report.text, HeaderAt(report.text, k), i, 1)[2]
                = ToString(StoredFindings(k)[i].line)
          /\ \E j \in 1..4 :
                ShowsSnippet(ListedEntry(report.text, HeaderAt(report.text, k), i, j),
                             StoredFindings(k)[i])
          /\ \E j \in 1..4 :
                ListedEntry(report.text, HeaderAt(report.text, k), i, j)
                   = <<"  Type: ", TypeOf(k, StoredFindings(k)[i])>>
          /\ \E j \in 1..4 :
                ListedEntry(report.text, HeaderAt(report.text, k), i, j)
                   = <<"  Severity: ", StoredFindings(k)[i].severity>>

\* C9, amended: every finding listed in a phantom, zombie or void section is
\* rendered in four lines, its line number with its context, its type, its
\* description and its severity; no line of its code snippet is rendered.
C9_ListedWithDescription ==
    (ScanCompleted /\ report.format = "text") =>
       \A k \in 2..4 : \A i \in 1..Shown(k) :
          /\ ListedEntry(report.text, HeaderAt(report.text, k), i, 1)
                = <<"\nLine ", ToString(StoredFindings(k)[i].line), " | ">>
                     \o StoredFindings(k)[i].context
          /\ ListedEntry(report.text, HeaderAt(report.text, k), i, 2)
                = <<"  Type: ", TypeOf(k, StoredFindings(k)[i])>>
          /\ ListedEntry(report.text, HeaderAt(report.text, k), i, 3)
                = <<"  Issue: ">> \o StoredFindings(k)[i].description
          /\ ListedEntry(report.text, HeaderAt(report.text, k), i, 4)
                = <<"  Severity: ", StoredFindings(k)[i].severity>>
          /\ \A j \in 1..4 :
                ~ShowsSnippet(ListedEntry(report.text, HeaderAt(report.text, k), i, j),
                              StoredFindings(k)[i])

C9_Witness ==
    /\ ScanCompleted
    /\ report.format = "text"
    /\ StoredCount(3) > 0
    /\ StoredCount(4) > 0
    /\ HeaderAt(report.text, 3) > 0
    /\ Len(StoredFindings(3)[1].code_snippet) > 1

\* The fields of a serialized finding of detector k.
JsonFields(k) ==
    {"line", "type", "severity", "context"}
       \cup (IF k = 1 THEN {"value"} ELSE {"description"})

\* C10: every finding of the JSON report has exactly five fields: line,
\* type, severity, context and description (value for a magic-gravity
\* finding), each with the finding's value; code_snippet and exit_mechanism
\* are not among them.
C10_JsonFindingFields ==
    (ScanCompleted /\ report.format = "json") =>
       \A k \in 1..4 : \A i \in 1..Len(report.json[Key(k)]["findings"]) :
          /\ DOMAIN report.json[Key(k)]["findings"][i] = JsonFields(k)
          /\ Cardinality(DOMAIN report.json[Key(k)]["findings"][i]) = 5
          /\ report.json[Key(k)]["findings"][i].line = StoredFindings(k)[i].line
          /\ report.json[Key(k)]["findings"][i].type = TypeOf(k, StoredFindings(k)[i])
          /\ report.json[Key(k)]["findings"][i].severity = StoredFindings(k)[i].severity
          /\ report.json[Key(k)]["findings"][i].context = StoredFindings(k)[i].context
          /\ k = 1 => report.json[Key(k)]["findings"][i].value = StoredFindings(k)[i].value
          /\ k > 1 => report.json[Key(k)]["findings"][i].description
                         = StoredFindings(k)[i].description

C10_Witness ==
    /\ ScanCompleted
    /\ report.format = "json"
    /\ Len(report.json["phantom_loops"]["findings"]) > 0
    /\ Len(report.json["magic_gravity"]["findings"]) > 0
    /\ "exit_mechanism" \in DOMAIN StoredFindings(2)[1]

\* ---- helpers of the detector claims: what the text says, read off its
\* lines and their indentation, never off a detector
SourceDetectors == {"phantom_loops", "zombie_orbits", "evidence_voids"}

Returned(d) == running[d].returned

Done(d) == running[d].pc = "done"

\* The nearest line at or above i that is indented less than ind (0: none).
RECURSIVE OpenerFrom(_, _, _)
OpenerFrom(lines, i, ind) ==
    IF i = 0 THEN 0
    ELSE IF lines[i].indent < ind THEN i
    ELSE OpenerFrom(lines, i - 1, ind)

\* The line that opens the block line L stands in (0: module level).
BlockOpener(lines, L) == OpenerFrom(lines, L - 1, lines[L].indent)

\* The name of the function a line defines ("" when it defines none).
OpenedFunction(text) ==
    CASE text = "def f():" -> "f"
      [] text = "def g():" -> "g"
      [] text = "async def h():" -> "h"
      [] OTHER -> ""

\* The line of the innermost function definition around the block that
\* line o opens (0: none).
RECURSIVE FunctionFrom(_, _)
FunctionFrom(lines, o) ==
    IF o = 0 THEN 0
    ELSE IF OpenedFunction(lines[o].text) # "" THEN o
    ELSE FunctionFrom(lines, BlockOpener(lines, o))

InnermostFunction(lines, L) == FunctionFrom(lines, BlockOpener(lines, L))

\* A finding about a function as a whole stands on the function's own line.
AboutFunction(d, finding) ==
    d = "zombie_orbits" /\ finding.zombie_type = "no_return_function"

\* The line of the function a finding belongs to (0: module level).
FunctionOf(d, finding) ==
    IF AboutFunction(d, finding) THEN finding.line
    ELSE InnermostFunction(self_source_code, finding.line)

NameAt(o) == OpenedFunction(self_source_code[o].text)

\* C11 as stated: a finding inside a function definition of any kind, at any
\* depth, has the context "function:<name of the innermost enclosing
\* function>" (a finding about a function as a whole: that function).
C11_InnermostFunctionContext ==
    \A d \in SourceDetectors :
       Done(d) =>
          \A i \in 1..Len(Returned(d)) :
             FunctionOf(d, Returned(d)[i]) # 0 =>
                Returned(d)[i].context
                   = <<"function:", NameAt(FunctionOf(d, Returned(d)[i]))>>

\* A finding in the body of an `async def` that stands at module level.
C11_Witness ==
    /\ Done("phantom_loops")
    /\ \E i \in 1..Len(Returned("phantom_loops")) :
          /\ FunctionOf("phantom_loops", Returned("phantom_loops")[i]) # 0
          /\ NameAt(FunctionOf("phantom_loops", Returned("phantom_loops")[i])) = "h"
          /\ Returned("phantom_loops")[i].context = <<"module">>

\* The traversal has not entered the tree yet, or has left it.
AtEnds(d) ==
    \/ running[d].self.stack = <<>>
    \/ running[d].self.stack = <<VisitFrame(ast_parse(self_source_code).value)>>

Window(lines, first, last) == SubSeq(lines, Max(1, first), Min(Len(lines), last))

\* C13 as stated: the snippet of a finding on line L is the lines L-2..L+2
\* of the text that exist, in their order.
C13_SnippetIsFiveLineWindow ==
    \A d \in SourceDetectors :
       Done(d) =>
          \A i \in 1..Len(Returned(d)) :
             Returned(d)[i].code_snippet
                = Window(self_source_code, Returned(d)[i].line - 2,
                         Returned(d)[i].line + 2)

\* A finding with two lines before it and two after it, whose snippet
\* starts one line before it.
C13_Witness ==
    /\ Done("zombie_orbits")
    /\ \E i \in 1..Len(Returned("zombie_orbits")) :
          /\ Returned("zombie_orbits")[i].line >= 3
          /\ Returned("zombie_orbits")[i].line + 2 <= Len(self_source_code)
          /\ Returned("zombie_orbits")[i].code_snippet
                = Window(self_source_code, Returned("zombie_orbits")[i].line - 1,
                         Returned("zombie_orbits")[i].line + 2)
          /\ Len(Returned("zombie_orbits")[i].code_snippet) = 4

\* Line i stands in the block that line o opens.
InBlock(lines, o, i) ==
    i > o /\ \A j \in (o + 1)..i : lines[j].indent > lines[o].indent

\* The lines of the statements that make up the block line o opens.
BlockStatements(lines, o) ==
    { i \in 1..Len(lines) :
         /\ InBlock(lines, o, i)
         /\ lines[i].indent = lines[o + 1].indent
         /\ lines[i].text \notin ExceptClauses }

\* The lines of the exception handlers of the text.
HandlerLines(lines) == { h \in 1..Len(lines) : lines[h].text \in ExceptClauses }

\* The three predicates of a handler, read off the text.
DeclaresNoType(lines, h) == lines[h].text = "except:"

SwallowsException(lines, h) ==
    /\ Cardinality(BlockStatements(lines, h)) = 1
    /\ lines[h + 1].text \in {"pass", "continue", "break"}

CallsLogging(lines, h) ==
    \E i \in 1..Len(lines) : InBlock(lines, h, i) /\ lines[i].text = "print(e)"

\* The kinds and severities expected on handler h, in the order of emission.
HandlerExpected(lines, h) ==
    (IF DeclaresNoType(lines, h) THEN << <<"bare_except", "HIGH">> >> ELSE <<>>)
    \o (IF SwallowsException(lines, h)
        THEN << <<"swallowed_exception", "HIGH">> >> ELSE <<>>)
    \o (IF ~CallsLogging(lines, h)
        THEN << <<"no_logging_in_except", "MEDIUM">> >> ELSE <<>>)

\* The kinds and severities of the void findings reported on line h.
VoidsOn(h) ==
    LET OnLine(v) == v.line = h
        on == SelectSeq(Returned("evidence_voids"), OnLine)
    IN [i \in 1..Len(on) |-> <<on[i].void_type, on[i].severity>>]

\* C14: on the line of every exception handler the findings are exactly
\* those of the predicates that hold, each judged on its own: bare-except
\* (HIGH) without a declared type, swallowed-exception (HIGH) for a body that
\* is one pass, continue or break, no-logging (MEDIUM) for a body without a
\* logging call; never more than three, and all three for `except: pass`.
C14_HandlerPredicatesIndependent ==
    Done("evidence_voids") =>
       \A h \in HandlerLines(self_source_code) :
          /\ VoidsOn(h) = HandlerExpected(self_source_code, h)
          /\ Len(VoidsOn(h)) <= 3
          /\ (/\ self_source_code[h].text = "except:"
              /\ self_source_code[h + 1].text = "pass"
              /\ Cardinality(BlockStatements(self_source_code, h)) = 1)
             => VoidsOn(h) = << <<"bare_except", "HIGH">>,
                                <<"swallowed_exception", "HIGH">>,
                                <<"no_logging_in_except", "MEDIUM">> >>

\* `except: break`: three findings on the handler's line.
C14_Witness ==
    /\ Done("evidence_voids")
    /\ \E h \in HandlerLines(self_source_code) :
          /\ self_source_code[h].text = "except:"
          /\ self_source_code[h + 1].text = "break"
          /\ Len(VoidsOn(h)) = 3
          /\ VoidsOn(h)[2] = <<"swallowed_exception", "HIGH">>

\* The lines that call a name of the fallible-operation list.
FallibleCalls(lines) ==
    { c \in 1..Len(lines) : lines[c].text \in {"open(p)", "x = open(p)"} }

\* The block that line o opens is part of a try statement, or lies in one.
RECURSIVE TryFrom(_, _)
TryFrom(lines, o) ==
    IF o = 0 THEN FALSE
    ELSE IF lines[o].text \in {"try:"} \cup ExceptClauses THEN TRUE
    ELSE TryFrom(lines, BlockOpener(lines, o))

InsideTry(lines, c) == TryFrom(lines, BlockOpener(lines, c))

SilentFailureOn(c) ==
    \E i \in 1..Len(Returned("evidence_voids")) :
       /\ Returned("evidence_voids")[i].line = c
       /\ Returned("evidence_voids")[i].void_type = "silent_failure"
       /\ Returned("evidence_voids")[i].severity = "MEDIUM"

\* C15 as stated: a call to a fallible operation has a silent-failure
\* finding (MEDIUM) exactly when it is not nested in a try statement.
C15_SilentFailureOnlyOutsideTry ==
    Done("evidence_voids") =>
       \A c \in FallibleCalls(self_source_code) :
          SilentFailureOn(c) <=> ~InsideTry(self_source_code, c)

\* A silent-failure finding for a call in the body of a try.
C15_Witness ==
    /\ Done("evidence_voids")
    /\ \E c \in FallibleCalls(self_source_code) \ {1} :
          /\ self_source_code[c - 1].text = "try:"
          /\ SilentFailureOn(c)

\* The lines of the while loops whose condition is the literal True and
\* whose body starts with the given statements.
WhileTrueStarting(lines, firsts) ==
    { w \in 1..Len(lines) : lines[w].text = "while True:" /\ lines[w + 1].text \in firsts }

\* The phantom findings reported on line w, as their severities.
PhantomsOn(w) ==
    LET OnLine(p) == p.line = w
        on == SelectSeq(Returned("phantom_loops"), OnLine)
    IN [i \in 1..Len(on) |-> on[i].severity]

ZombiesOn(n, zombie_type) ==
    LET OnLine(z) == z.line = n /\ z.zombie_type = zombie_type
        on == SelectSeq(Returned("zombie_orbits"), OnLine)
    IN [i \in 1..Len(on) |-> on[i].severity]

\* C17: a bare expression statement that calls a name outside the
\* side-effect allow-list (compute, open) has exactly one discarded-call
\* finding (HIGH); a bare call of a name in the list (print, send), an
\* assigned call and every other statement have none.
C17_DiscardedCall ==
    Done("zombie_orbits") =>
       \A n \in 1..Len(self_source_code) :
          IF self_source_code[n].text \in {"compute()", "open(p)"}
          THEN ZombiesOn(n, "discarded_call") = <<"HIGH">>
          ELSE ZombiesOn(n, "discarded_call") = <<>>

\* `compute()` flagged and `send(m)` after it not.
C17_Witness ==
    /\ Done("zombie_orbits")
    /\ Len(self_source_code) = 2
    /\ self_source_code[1].text = "compute()"
    /\ self_source_code[2].text = "send(m)"
    /\ ZombiesOn(1, "discarded_call") = <<"HIGH">>
    /\ Len(Returned("zombie_orbits")) = 1

\* Every statement of the block line o opens is pass or continue.
OnlyNoOps(lines, o) ==
    \A i \in BlockStatements(lines, o) : lines[i].text \in {"pass", "continue"}

\* C18: a for or while loop has exactly one empty-loop finding (HIGH) when
\* its body holds only pass and continue statements, and none when the body
\* holds any other statement; no other line has one.
C18_EmptyLoop ==
    Done("zombie_orbits") =>
       \A n \in 1..Len(self_source_code) :
          IF /\ self_source_code[n].text \in LoopOpeners
             /\ OnlyNoOps(self_source_code, n)
          THEN ZombiesOn(n, "empty_loop") = <<"HIGH">>
          ELSE ZombiesOn(n, "empty_loop") = <<>>

\* `while x:` over `continue` and `pass`.
C18_Witness ==
    /\ Done("zombie_orbits")
    /\ Len(self_source_code) = 3
    /\ self_source_code[1].text = "while x:"
    /\ self_source_code[2].text = "continue"
    /\ self_source_code[3].text = "pass"
    /\ ZombiesOn(1, "empty_loop") = <<"HIGH">>

\* The block line o opens holds, at any depth, a return with a value.
ReturnsValue(lines, o) ==
    \E i \in 1..Len(lines) : InBlock(lines, o, i) /\ lines[i].text = "return v"

\* The block line o opens holds, at any depth, what the no-return check
\* takes for a side effect: a call of print, log, write, append, update or
\* delete (of the modelled calls: print), or a store to an attribute.
ShowsSideEffect(lines, o) ==
    \E i \in 1..Len(lines) :
       InBlock(lines, o, i) /\ lines[i].text \in {"print(e)", "self.x = v"}

KindOf(lines, k, f) ==
    CASE k = 2 /\ lines[f.line].text = "while True:" /\ f.line < Len(lines)
               /\ lines[Min(f.line + 1, Len(lines))].text = "break"
            -> "while true break"
      [] k = 3 /\ lines[f.line].text \in LoopOpeners -> "empty loop"
      [] k = 3 /\ lines[f.line].text \in {"compute()", "open(p)"} -> "discarded call"
      [] k = 3 /\ lines[f.line].text \in {"def f():", "def g():"} -> "no return function"
      [] OTHER -> ""

\* The tags written with hyphens.
HyphenTags ==
    [kind \in {"while true break", "empty loop", "discarded call", "no return function"} |->
        CASE kind = "while true break" -> "while-true-break"
          [] kind = "empty loop" -> "empty-loop"
          [] kind = "discarded call" -> "discarded-call"
          [] kind = "no return function" -> "no-return-function"]

\* The tags written with underscores.
UnderscoreTags ==
    [kind \in DOMAIN HyphenTags |->
        CASE kind = "while true break" -> "while_true_break"
          [] kind = "empty loop" -> "empty_loop"
          [] kind = "discarded call" -> "discarded_call"
          [] kind = "no return function" -> "no_return_function"]

\* Every finding of one of the four kinds carries the tag `tags` gives its
\* kind, in the stored results, in the text report and in the JSON report.
TagsAre(tags) ==
    ScanCompleted =>
       \A k \in 2..3 :
          /\ \A i \in 1..StoredCount(k) :
                KindOf(self_source_code, k, StoredFindings(k)[i]) \in DOMAIN tags =>
                   TypeOf(k, StoredFindings(k)[i])
                      = tags[KindOf(self_source_code, k, StoredFindings(k)[i])]
          /\ report.format = "json" =>
                \A i \in 1..Len(report.json[Key(k)]["findings"]) :
                   KindOf(self_source_code, k, StoredFindings(k)[i]) \in DOMAIN tags =>
                      report.json[Key(k)]["findings"][i].type
                         = tags[KindOf(self_source_code, k, StoredFindings(k)[i])]
          /\ report.format = "text" =>
                \A i \in 1..Shown(k) :
                   KindOf(self_source_code, k, StoredFindings(k)[i]) \in DOMAIN tags =>
                      ListedEntry(report.text, HeaderAt(report.text, k), i, 2)
                         = <<"  Type: ",
                             tags[KindOf(self_source_code, k, StoredFindings(k)[i])]>>

\* C20 as stated: the type tag of a while-true loop exited by break, of an
\* empty loop, of a discarded call and of a function without output is
\* "while-true-break", "empty-loop", "discarded-call" and
\* "no-return-function", in the findings and in the text and JSON reports.
C20_TagsHyphenated == TagsAre(HyphenTags)

\* C20 amended: those tags are "while_true_break", "empty_loop",
\* "discarded_call" and "no_return_function", the values of PhantomType and
\* ZombieType, and the text and JSON reports show them unchanged.
C20_TagsUnderscored == TagsAre(UnderscoreTags)

\* A JSON report that holds a finding of each of the four kinds.
C20_Witness ==
    /\ ScanCompleted
    /\ report.format = "json"
    /\ \E i \in 1..Len(report.json["phantom_loops"]["findings"]) :
          report.json["phantom_loops"]["findings"][i].type = "while_true_break"
    /\ \A kind \in {"empty loop", "discarded call", "no return function"} :
          \E i \in 1..Len(report.json["zombie_orbits"]["findings"]) :
             /\ KindOf(self_source_code, 3, StoredFindings(3)[i]) = kind
             /\ report.json["zombie_orbits"]["findings"][i].type = UnderscoreTags[kind]

\* The block line o opens holds, at any depth, a bare call whose callee is
\* exempt from the discarded-call finding (of the modelled calls: print and
\* send).
CallsExemptName(lines, o) ==
    \E i \in 1..Len(lines) :
       InBlock(lines, o, i) /\ lines[i].text \in {"print(e)", "send(m)"}

\* C21: the callee names that exempt a bare call from a discarded-call
\* finding also count as side effects of the function that calls them: a
\* `def` whose body calls such a name (print, send) has no
\* no-return-function finding.
C21_OneAllowList ==
    Done("zombie_orbits") =>
       \A n \in 1..Len(self_source_code) :
          (/\ self_source_code[n].text \in {"def f():", "def g():"}
           /\ CallsExemptName(self_source_code, n))
             => ZombiesOn(n, "no_return_function") = <<>>

\* `send(m)` is exempt as a bare call, and the function that only calls it
\* is flagged all the same.
C21_Witness ==
    /\ Done("zombie_orbits")
    /\ Len(self_source_code) = 2
    /\ self_source_code[1].text = "def f():"
    /\ self_source_code[2].text = "send(m)"
    /\ ZombiesOn(2, "discarded_call") = <<>>
    /\ ZombiesOn(1, "no_return_function") = <<"MEDIUM">>

\* The nodes of a list of subtrees in pre-order: each node before its
\* children, the children left to right.
RECURSIVE PreOrderOf(_, _)
PreOrderOf(nodes, i) ==
    IF i > Len(nodes) THEN <<>>
    ELSE <<nodes[i]>> \o PreOrderOf(Children(nodes[i]), 1) \o PreOrderOf(nodes, i + 1)

\* The nodes a traversal with this call stack has still to visit.
Pending(stack) ==
    LET IsVisit(frame) == frame.op = "visit"
        visits == SelectSeq(stack, IsVisit)
    IN PreOrderOf([i \in 1..Len(visits) |-> visits[i].node], 1)

\* The predicates of detector d that one handler matches, as (line, tag)
\* pairs.
HandlerMatched(handler) ==
    (IF handler.name = "" THEN << <<handler.lineno, "bare_except">> >> ELSE <<>>)
    \o (IF Void_is_swallowed(handler.body)
        THEN << <<handler.lineno, "swallowed_exception">> >> ELSE <<>>)
    \o (IF ~Void_has_logging(handler.body)
        THEN << <<handler.lineno, "no_logging_in_except">> >> ELSE <<>>)

RECURSIVE HandlersMatched(_, _)
HandlersMatched(handlers, i) ==
    IF i > Len(handlers) THEN <<>>
    ELSE HandlerMatched(handlers[i]) \o HandlersMatched(handlers, i + 1)

\* The (node, matched predicate) pairs of detector d at one node, as
\* (line, tag) pairs.
Matched(d, node) ==
    CASE d = "phantom_loops" /\ node.type = "While" ->
            IF /\ Phantom_is_infinite_condition(node.exprs[1])
               /\ Phantom_check_immediate_exit(node.body).found
            THEN << <<node.lineno, Phantom_check_immediate_exit(node.body).phantom_type>> >>
            ELSE <<>>
      [] d = "zombie_orbits" /\ node.type = "FunctionDef" ->
            IF ~Zombie_has_meaningful_return(node) /\ ~Zombie_has_side_effects(node)
            THEN << <<node.lineno, "no_return_function">> >> ELSE <<>>
      [] d = "zombie_orbits" /\ node.type = "Expr" ->
            (IF /\ node.exprs[1].type = "Call"
                /\ Zombie_get_call_name(node.exprs[1]) # ""
                /\ ~Zombie_is_side_effect_function(Zombie_get_call_name(node.exprs[1]))
             THEN << <<node.lineno, "discarded_call">> >> ELSE <<>>)
            \o (IF node.exprs[1].type = "BinOp"
                THEN << <<node.lineno, "unused_computation">> >> ELSE <<>>)
      [] d = "zombie_orbits" /\ node.type \in {"For", "While"} ->
            IF Zombie_is_empty_loop(node.body)
            THEN << <<node.lineno, "empty_loop">> >> ELSE <<>>
      [] d = "evidence_voids" /\ node.type = "Try" -> HandlersMatched(node.handlers, 1)
      [] d = "evidence_voids" /\ node.type = "Call" ->
            IF Void_get_call_name(node) \in
                  {"open", "urlopen", "connect", "request", "load", "parse"}
            THEN << <<node.lineno, "silent_failure">> >> ELSE <<>>
      [] OTHER -> <<>>

\* The pairs of the first n nodes of a list, in the order of the list.
RECURSIVE MatchedOf(_, _, _)
MatchedOf(d, nodes, n) ==
    IF n = 0 THEN <<>>
    ELSE MatchedOf(d, nodes, n - 1) \o Matched(d, nodes[n])

\* The findings of detector d as (line, tag) pairs.
Emitted(d, findings) ==
    [i \in 1..Len(findings) |->
        <<findings[i].line,
          CASE d = "phantom_loops" -> findings[i].phantom_type
            [] d = "zombie_orbits" -> findings[i].zombie_type
            [] d = "evidence_voids" -> findings[i].void_type>>]

\* With `pre` the nodes of the tree in pre-order: the nodes still to visit
\* are the last ones of `pre`, and the findings so far are the matches of
\* the nodes before them, one each, in order.
VisitedOnce(d, pre, pending, findings) ==
    /\ Len(pending) <= Len(pre)
    /\ pending = SubSeq(pre, Len(pre) - Len(pending) + 1, Len(pre))
    /\ Emitted(d, findings) = MatchedOf(d, pre, Len(pre) - Len(pending))

\* C22: at every point of a detector's traversal the nodes visited are a
\* prefix of the tree's pre-order and the nodes pending are the rest of it
\* (so every handler goes on into its node's children and no node is
\* visited twice), and the findings are exactly the matches of the visited
\* nodes: one finding for each node and predicate that matches, nested
\* constructs included, none missing and none twice.
C22_PreOrderOnce ==
    \A d \in SourceDetectors :
       /\ running[d].pc = "visiting" =>
             VisitedOnce(d, PreOrderOf(<<ast_parse(self_source_code).value>>, 1),
                         Pending(running[d].self.stack),
                         DetectorFindings(d, running[d].self))
       /\ (Done(d) /\ ast_parse(self_source_code).exc = "") =>
             VisitedOnce(d, PreOrderOf(<<ast_parse(self_source_code).value>>, 1),
                         <<>>, Returned(d))

\* A phantom loop inside a phantom loop: both are reported, the outer one
\* first.
C22_Witness ==
    /\ Done("phantom_loops")
    /\ Emitted("phantom_loops", Returned("phantom_loops"))
          = << <<1, "while_true_break">>, <<3, "while_true_return">> >>

\* The line texts that are a bare expression statement.
BareExpressions ==
    {"compute()", "print(e)", "send(m)", "open(p)", "a + b", "compute() + b", "'doc'"}

\* All zombie findings reported on line n.
AllZombiesOn(n) ==
    LET OnLine(z) == z.line = n IN SelectSeq(Returned("zombie_orbits"), OnLine)

\* C23: a bare expression statement whose value is a binary arithmetic
\* expression (a + b, compute() + b) has exactly one unused-computation
\* finding (MEDIUM) and no other line has one; a bare expression statement
\* never has more than one finding of any kind, and a docstring constant has
\* none.
C23_UnusedComputation ==
    Done("zombie_orbits") =>
       \A n \in 1..Len(self_source_code) :
          /\ IF self_source_code[n].text \in {"a + b", "compute() + b"}
             THEN ZombiesOn(n, "unused_computation") = <<"MEDIUM">>
             ELSE ZombiesOn(n, "unused_computation") = <<>>
          /\ self_source_code[n].text \in BareExpressions => Len(AllZombiesOn(n)) <= 1
          /\ self_source_code[n].text = "'doc'" => AllZombiesOn(n) = <<>>

\* An arithmetic expression over a call that is not in the allow-list: one
\* finding, the unused computation; the docstring before it has none.
C23_Witness ==
    /\ Done("zombie_orbits")
    /\ Len(self_source_code) = 2
    /\ self_source_code[1].text = "'doc'"
    /\ self_source_code[2].text = "compute() + b"
    /\ Len(Returned("zombie_orbits")) = 1
    /\ Returned("zombie_orbits")[1].zombie_type = "unused_computation"
    /\ Returned("zombie_orbits")[1].line = 2

\* The text report of a scanner that has no results: the header with the
\* defaults, no detector section, the recommendations.
UnscannedText ==
    << <<"\n", Rule70>>,
       <<"DARK MATTER DETECTION REPORT">>,
       <<Rule70>>,
       <<"\nFile: ", "unknown">>,
       <<"Total Dark Matter Score: ", "0", ".0">>,
       <<"Total Findings: ", "0">> >>
    \o Recommendations

\* What a generate_report(format) step does, before and after scan_all.
ReportStep(format) ==
    GenerateReport(format) =>
       /\ self_results' = self_results
       /\ ScanCompleted =>
             /\ error' = ""
             /\ report'.format = format
             /\ format = "text" => Len(report'.text) >= 14
             /\ format = "json" => DOMAIN report'.json = {"summary"} \cup DetectorNames
       /\ (~ScanCompleted /\ format = "text") =>
             /\ error' = ""
             /\ report'.format = "text"
             /\ report'.text = UnscannedText
             /\ TitlesOf(report'.text) = <<>>
       /\ (~ScanCompleted /\ format = "json") =>
             /\ error' = "KeyError"
             /\ report' = report

\* C24: on a scanner whose scan_all was never called, generate_report('text')
\* returns the report with file 'unknown', score 0.0, 0 findings and no
\* detector section, whatever the scanner's file path, and
\* generate_report('json') raises KeyError and returns nothing; after
\* scan_all both formats return a report; the stored results are the same
\* after the call as before.
C24_ReportNeedsScan == [][\A format \in Formats : ReportStep(format)]_vars

\* A scanner for a.py without results: the text report was returned, the
\* JSON report asked for after it failed.
C24_Witness ==
    /\ ~ScanCompleted
    /\ self_results = EmptyDict
    /\ self_filepath = "a.py"
    /\ report.format = "text"
    /\ report.text = UnscannedText
    /\ error = "KeyError"

\* Line h is an except clause of the try statement on line t.
HandlerOf(lines, t, h) ==
    /\ lines[t].text = "try:"
    /\ h > t
    /\ lines[h].text \in ExceptClauses
    /\ lines[h].indent = lines[t].indent
    /\ \A j \in (t + 1)..(h - 1) :
          \/ lines[j].indent > lines[t].indent
          \/ lines[j].indent = lines[t].indent /\ lines[j].text \in ExceptClauses

\* Every finding about a handler of a try statement stands in the list
\* before every finding that arises in the body of that try.
HandlersBeforeBody(lines, voids) ==
    \A t \in 1..Len(lines), h \in 1..Len(lines) :
       HandlerOf(lines, t, h) =>
          \A i \in 1..Len(voids), j \in 1..Len(voids) :
             (/\ voids[i].line = h
              /\ voids[i].void_type # "silent_failure"
              /\ InBlock(lines, t, voids[j].line))
                => i < j

\* C25: the evidence-void list is in emission order: the findings of the
\* handlers of a try statement come before every finding of that try's
\* body, the silent failure of a call on an earlier line included; and the
\* text report lists the first five findings of that list in its order,
\* whatever their line numbers.
C25_EmissionOrder ==
    ScanCompleted =>
       /\ HandlersBeforeBody(self_source_code, StoredFindings(4))
       /\ (report.format = "text" /\ StoredCount(4) > 0) =>
             /\ \A i \in 1..Shown(4) :
                   ListedEntry(report.text, HeaderAt(report.text, 4), i, 1)
                      = <<"\nLine ", ToString(StoredFindings(4)[i].line), " | ">>
                           \o StoredFindings(4)[i].context
             /\ IsSeparator(ListedEntry(report.text, HeaderAt(report.text, 4),
                                        Shown(4) + 1, 1))

\* Two try statements: the silent failure of line 2 follows the handler
\* findings of line 3, and the report lists a finding of line 7 while the
\* one of line 6 is left out.
C25_Witness ==
    /\ ScanCompleted
    /\ report.format = "text"
    /\ StoredCount(4) = 8
    /\ StoredFindings(4)[3].line = 3
    /\ StoredFindings(4)[4].line = 2
    /\ StoredFindings(4)[4].void_type = "silent_failure"
    /\ ListedEntry(report.text, HeaderAt(report.text, 4), 5, 1)[2] = "7"
    /\ StoredFindings(4)[8].line = 6

====
